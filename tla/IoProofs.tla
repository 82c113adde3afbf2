------------------------------ MODULE IoProofs ------------------------------
(***************************************************************************)
(* What a file descriptor reads from, below the virtual file system:       *)
(* regular files of the simple file system, for any number of files,       *)
(* descriptors and blocks and any sizes of blocks and inodes; then the     *)
(* keyboard, for any number of readers, any size of its buffer and any     *)
(* number of keys.                                                         *)
(***************************************************************************)
EXTENDS SfsFile, Stdin, FiniteSetTheorems, TLAPS

B == SFS_BLKSIZE
MaxBlocks == SFS_NDIRECT + SFS_BLK_NENTRY

IsOpen(f) == fd[f] # NoFile

----------------------------------------------------------------------------
(* The inductive invariants *)

\* No file is longer than its inode can describe.
BoundOK ==
  \A i \in Inodes : din[i].blocks <= MaxBlocks /\ ddin[i].blocks <= MaxBlocks

\* The call in progress and the descriptor it works for.
CallOK ==
  /\ op.kind = "trunc" /\ op.caller = "open" => fd[op.fd] = NoFile /\ op.len = 0
  /\ op.kind = "trunc" /\ op.caller = "seek" =>
        IsOpen(op.fd) /\ fd[op.fd].ino = op.ino
  /\ op.kind = "io" => /\ IsOpen(op.fd) /\ fd[op.fd].ino = op.ino
                       /\ fd[op.fd].pos = op.offset

\* What is left of a transfer: nothing, or whole blocks from an aligned
\* position and less than one more block.
Rest == \/ op.pos = op.end /\ op.nblks = 0
        \/ /\ op.blkno * B = op.pos
           /\ op.nblks * B <= op.end - op.pos
           /\ op.end - op.pos < op.nblks * B + B

PieceOK ==
  op.kind = "io" =>
    /\ op.offset <= op.pos /\ op.pos <= op.end
    /\ op.at = "head" => /\ op.pos = op.offset /\ op.pos < op.end
                         /\ op.offset % B # 0
                         /\ op.blkno = op.offset \div B
                         /\ op.nblks = (op.end \div B) - op.blkno
    /\ op.at = "body" => Rest

FreeCount == unused = Cardinality(free)

CallInv == TypeOK /\ BoundOK /\ CallOK /\ PieceOK /\ FreeCount

\* A block is named at one place at most, and at one exactly when it is in use.
NamesOK ==
  /\ \A p \in Places : BlockAt(p) \notin free
  /\ \A p, q \in Places : BlockAt(p) = BlockAt(q) /\ BlockAt(p) # 0 => p = q
  /\ \A b \in Blocks \ free : \E p \in Places : BlockAt(p) = b

\* Without an indirect block there are no entries.
IndirectOK == \A i \in Inodes : Inode(i).indirect = 0 => entries[i] = NoEntries

\* Every block below the count of blocks is there; also for the inode that the
\* disk holds while the one in memory is not dirty: it may be read back.
Backed(node, ent) ==
  \A x \in 0 .. node.blocks - 1 :
     (IF x < SFS_NDIRECT THEN node.direct[x] ELSE ent[x - SFS_NDIRECT]) # 0

MappedOK ==
  /\ \A i \in Inodes : Backed(Inode(i), entries[i])
  /\ \A i \in Inodes : ref[i] > 0 /\ ~dirty[i] => Backed(ddin[i], entries[i])

NameInv ==
  /\ NamesOK /\ IndirectOK /\ MappedOK /\ NothingLost
  /\ panic \notin {"inuse", "unused"}

\* The blocks of a file hold it, but while an open cuts it.
Fits(node) == node.size <= node.blocks * B

FitsOK ==
  /\ \A i \in Inodes : \/ Fits(Inode(i))
                       \/ op.kind = "trunc" /\ op.caller = "open" /\ op.ino = i
  /\ \A i \in Inodes : ref[i] > 0 /\ ~dirty[i] => Fits(ddin[i])

\* No position lies behind the end of its file: nobody else has the file that
\* an open cuts.
PosOK ==
  /\ \A f \in Fds : IsOpen(f) => fd[f].pos <= din[fd[f].ino].size
  /\ op.kind = "trunc" /\ op.caller = "open" =>
        \A f \in Fds : IsOpen(f) => fd[f].ino # op.ino
  /\ op.kind = "trunc" /\ op.caller = "seek" => din[op.ino].size < op.len
  /\ op.kind = "io" => /\ op.pos <= din[op.ino].blocks * B
                       /\ op.write \/ op.end <= din[op.ino].size

SizeInv == FitsOK /\ PosOK /\ panic # "index"

\* A file has no block to spare, but while it is resized, and while a transfer
\* runs ahead of its size.  The inode on the disk is meant as well, while the
\* one in memory is not dirty.
Tight(node) == node.blocks * B < node.size + B

Moving(i) ==
  \/ op.kind = "trunc" /\ op.ino = i
  \/ op.kind = "io" /\ op.ino = i /\ din[i].blocks * B < op.pos + B

TightAt(i) ==
  /\ Tight(Inode(i)) \/ Moving(i)
  /\ ref[i] > 0 /\ ~dirty[i] => Tight(ddin[i])

SizePanic == panic = "size" => \E i \in cut : din[i].size = 0 /\ din[i].blocks > 0

TightInv == (\A i \in Inodes \ cut : TightAt(i)) /\ SizePanic

----------------------------------------------------------------------------
(* Arithmetic on positions and blocks *)

\* Quotient and remainder of a position.
LEMMA DivMod ==
  ASSUME NEW x \in Nat
  PROVE  /\ x \div B \in Nat
         /\ x % B \in 0..(B - 1)
         /\ x = (x \div B) * B + (x % B)
<1> DEFINE M == SFS_BLKSIZE
<1>0. M \in Nat /\ M > 0
  BY SfsFileAssumption
<1> HIDE DEF M
<1>1. x % M \in 0..(M - 1)
  BY <1>0
<1>2. x = (x \div M) * M + (x % M)
  BY <1>0
<1>3. x \div M \in Int
  BY <1>0
<1>4. CASE x \div M < 0
  <2>1. (x \div M) * M <= -M
    BY <1>0, <1>3, <1>4
  <2> QED BY <2>1, <1>0, <1>1, <1>2
<1> QED BY <1>1, <1>2, <1>3, <1>4 DEF B, M

\* Multiplication by the size of a block keeps the order, both ways.
LEMMA TimesB ==
  ASSUME NEW x \in Int, NEW y \in Int
  PROVE  /\ x * B \in Int
         /\ x <= y <=> x * B <= y * B
         /\ x < y <=> x * B < y * B
         /\ (x + 1) * B = x * B + B
         /\ (x - 1) * B = x * B - B
         /\ (x - y) * B = x * B - y * B
<1> DEFINE M == SFS_BLKSIZE
<1>0. M \in Nat /\ M > 0
  BY SfsFileAssumption
<1> HIDE DEF M
<1>1. /\ x * M \in Int
      /\ (x + 1) * M = x * M + M
      /\ (x - 1) * M = x * M - M
      /\ (x - y) * M = x * M - y * M
  BY <1>0
<1>2. ASSUME NEW a \in Int, NEW b \in Int, a <= b PROVE a * M <= b * M
  BY <1>0, <1>2
<1>3. ASSUME NEW a \in Int, NEW b \in Int, a < b PROVE a * M < b * M
  <2>1. (a + 1) * M <= b * M
    BY <1>2, <1>3
  <2> QED BY <2>1, <1>0
<1> QED BY <1>1, <1>2, <1>3, <1>0 DEF B, M

\* The block that holds a position.
LEMMA DivBound ==
  ASSUME NEW p \in Nat, NEW k \in Nat
  PROVE  /\ (p \div B) * B <= p /\ p < (p \div B) * B + B
         /\ p <= k * B => p \div B <= k
         /\ p < k * B => p \div B < k
         /\ k * B <= p => k <= p \div B
<1>1. /\ p \div B \in Nat /\ p % B \in 0..(B - 1)
      /\ p = (p \div B) * B + (p % B)
  BY DivMod
<1>2. B \in Nat /\ B > 0 /\ (p \div B) * B \in Int /\ k * B \in Int
  BY SfsFileAssumption, <1>1, TimesB DEF B
<1>3. (p \div B) * B <= p /\ p < (p \div B) * B + B
  BY <1>1, <1>2
<1>4. ASSUME p <= k * B PROVE p \div B <= k
  BY <1>1, <1>2, <1>3, <1>4, TimesB
<1>5. ASSUME p < k * B PROVE p \div B < k
  BY <1>1, <1>2, <1>3, <1>5, TimesB
<1>6. ASSUME k * B <= p PROVE k <= p \div B
  <2>1. k * B < ((p \div B) + 1) * B
    BY <1>1, <1>2, <1>3, <1>6, TimesB
  <2>2. (p \div B) + 1 \in Int /\ k \in Int
    BY <1>1
  <2>3. k < (p \div B) + 1
    BY <2>1, <2>2, TimesB
  <2> QED BY <2>3, <1>1
<1> QED BY <1>3, <1>4, <1>5, <1>6

\* ROUNDUP_DIV: the blocks that n bytes need.
LEMMA RoundUp ==
  ASSUME NEW n \in Nat
  PROVE  /\ RoundUpDiv(n, SFS_BLKSIZE) \in Nat
         /\ n <= RoundUpDiv(n, SFS_BLKSIZE) * B
         /\ RoundUpDiv(n, SFS_BLKSIZE) * B < n + B
         /\ n = 0 => RoundUpDiv(n, SFS_BLKSIZE) = 0
<1> DEFINE p == n + B - 1
<1>1. B \in Nat /\ B > 0 /\ p \in Nat
  BY SfsFileAssumption DEF B
<1>2. RoundUpDiv(n, SFS_BLKSIZE) = p \div B
  BY DEF RoundUpDiv, B
<1> HIDE DEF p
<1>3. p \div B \in Nat /\ p < (p \div B) * B + B /\ (p \div B) * B \in Int
      /\ (p \div B) * B <= p
      /\ (p < 1 * B => p \div B < 1)
  BY <1>1, DivMod, DivBound, TimesB
<1>4. n <= (p \div B) * B /\ (p \div B) * B < n + B
  BY <1>1, <1>3 DEF p
<1>5. ASSUME n = 0 PROVE p \div B = 0
  BY <1>1, <1>3, <1>5 DEF p
<1> QED BY <1>2, <1>3, <1>4, <1>5

----------------------------------------------------------------------------
(* The freemap *)

\* bitmap_alloc finds a block whenever one is free.
LEMMA LowestFree ==
  ASSUME NEW S, S \subseteq Blocks, S # {}
  PROVE  Lowest(S) \in S
<1>1. S \subseteq Nat
  BY SfsFileAssumption DEF Blocks
<1>2. \E b \in S : \A c \in S : ~(<<c, b>> \in OpToRel(<, Nat))
  <2> DEFINE R == OpToRel(<, Nat)
  <2>1. IsWellFoundedOn(R, Nat)
    BY NatLessThanWellFounded
  <2> HIDE DEF R
  <2>2. \E b \in S : \A c \in S : ~(<<c, b>> \in R)
    BY <2>1, <1>1, WFMin
  <2> QED BY <2>2 DEF R
<1>3. ASSUME NEW b \in Nat, NEW c \in Nat, c < b PROVE <<c, b>> \in OpToRel(<, Nat)
  BY <1>3, Zenon DEF OpToRel
<1> HIDE DEF OpToRel
<1>4. PICK b \in S : \A c \in S : ~(<<c, b>> \in OpToRel(<, Nat))
  BY <1>2
<1>5. \A c \in S : ~(c < b)
  BY <1>1, <1>3, <1>4, Zenon
<1>6. \E a \in S : \A c \in S : a <= c
  BY <1>1, <1>5
<1> QED BY <1>6 DEF Lowest

LEMMA FreeSets ==
  ASSUME NEW S, S \subseteq Blocks
  PROVE  /\ IsFiniteSet(S) /\ Cardinality(S) \in Nat
         /\ Cardinality(S) > 0 => S # {}
         /\ \A b \in S : Cardinality(S \ {b}) = Cardinality(S) - 1
         /\ \A b \in Blocks \ S : Cardinality(S \union {b}) = Cardinality(S) + 1
<1>1. IsFiniteSet(Blocks)
  BY FS_Interval, SfsFileAssumption DEF Blocks
<1>2. IsFiniteSet(S)
  BY <1>1, FS_Subset
<1> QED BY <1>2, FS_CardinalityType, FS_EmptySet, FS_AddElement, FS_RemoveElement

----------------------------------------------------------------------------
(* Loading and freeing a block *)

\* The four ways sfs_bmap_load_nolock succeeds: the block is there; a direct
\* block is added; an entry is added to the indirect block; both are.
OldBlock(i, x) ==
  /\ x < din[i].blocks \/ Mapped(i, x) # 0
  /\ din'[i].direct = din[i].direct /\ din'[i].indirect = din[i].indirect
  /\ entries'[i] = entries[i] /\ free' = free /\ dirty'[i] = dirty[i]

NewDirect(i, x, b) ==
  /\ x < SFS_NDIRECT /\ din[i].direct[x] = 0
  /\ din'[i].direct = [din[i].direct EXCEPT ![x] = b]
  /\ din'[i].indirect = din[i].indirect
  /\ entries'[i] = entries[i] /\ free' = free \ {b} /\ dirty'[i]

NewEntry(i, x, b) ==
  /\ x >= SFS_NDIRECT /\ entries[i][x - SFS_NDIRECT] = 0 /\ din[i].indirect # 0
  /\ din'[i].direct = din[i].direct /\ din'[i].indirect = din[i].indirect
  /\ entries'[i] = [entries[i] EXCEPT ![x - SFS_NDIRECT] = b]
  /\ free' = free \ {b} /\ dirty'[i] = dirty[i]

NewIndirect(i, x, e, b) ==
  /\ x >= SFS_NDIRECT /\ entries[i][x - SFS_NDIRECT] = 0 /\ din[i].indirect = 0
  /\ din'[i].direct = din[i].direct /\ din'[i].indirect = e
  /\ entries'[i] = [entries[i] EXCEPT ![x - SFS_NDIRECT] = b]
  /\ free' = free \ {e, b} /\ e # b /\ dirty'[i]

Loaded(i, x) ==
  \/ OldBlock(i, x)
  \/ \E b \in free : x >= din[i].blocks /\ (NewDirect(i, x, b) \/ NewEntry(i, x, b))
  \/ \E e, b \in free : x >= din[i].blocks /\ NewIndirect(i, x, e, b)

\* Only file i changes, and not its size.
OnlyFile(i) ==
  /\ \A j \in Inodes \ {i} : din'[j] = din[j] /\ dirty'[j] = dirty[j]
                             /\ entries'[j] = entries[j]
  /\ din'[i].size = din[i].size

FileTypes ==
  /\ din' \in [Inodes -> DiskInode] /\ dirty' \in [Inodes -> BOOLEAN]
  /\ entries' \in [Inodes -> [Entries -> BlkNo]]
  /\ free' \subseteq Blocks /\ unused' \in Nat /\ unused' = Cardinality(free')

LEMMA LoadEffect ==
  ASSUME TypeOK, FreeCount, NEW i \in Inodes, NEW x \in Nat,
         LoadPanic(i, x) = "none", ~LoadFails(i, x), LoadBlock(i, x)
  PROVE  /\ x <= din[i].blocks /\ x < MaxBlocks
         /\ FileTypes /\ OnlyFile(i) /\ Loaded(i, x)
         /\ din'[i].blocks = IF x = din[i].blocks THEN x + 1 ELSE din[i].blocks
<1> DEFINE n == Needed(i, x)
           ent == Lowest(free)
           blk == IF n = 2 THEN Lowest(free \ {ent}) ELSE ent
           y == x - SFS_NDIRECT
<1>1. /\ x <= din[i].blocks /\ x < MaxBlocks
  BY SfsFileAssumption DEF LoadPanic, MaxBlocks, TypeOK, DiskInode
<1>2. /\ SFS_NDIRECT \in Nat /\ SFS_BLK_NENTRY \in Nat /\ NBLK \in Nat
      /\ x < SFS_NDIRECT => x \in Directs
      /\ x >= SFS_NDIRECT => y \in Entries
      /\ Blocks \subseteq BlkNo /\ 0 \in BlkNo /\ 0 \notin Blocks
  BY <1>1, SfsFileAssumption DEF MaxBlocks, Directs, Entries, Blocks, BlkNo
<1>3. /\ din \in [Inodes -> DiskInode] /\ dirty \in [Inodes -> BOOLEAN]
      /\ entries \in [Inodes -> [Entries -> BlkNo]] /\ free \subseteq Blocks
      /\ unused \in Nat /\ din[i].blocks \in Nat /\ din[i].indirect \in BlkNo
      /\ din[i].direct \in [Directs -> BlkNo] /\ entries[i] \in [Entries -> BlkNo]
      /\ dirty[i] \in BOOLEAN /\ din[i].size \in Nat
  BY DEF TypeOK, DiskInode
<1>4. n \in {0, 1, 2} /\ n <= Cardinality(free) /\ Cardinality(free) = unused
  <2>1. Cardinality(free) = unused
    BY DEF FreeCount
  <2> QED BY <2>1, <1>3 DEF LoadFails, Needed
<1>5. /\ n = 0 => x < din[i].blocks \/ Mapped(i, x) # 0
      /\ n # 0 => x >= din[i].blocks /\ Mapped(i, x) = 0
      /\ n = 1 => x < SFS_NDIRECT \/ din[i].indirect # 0
      /\ n = 2 => x >= SFS_NDIRECT /\ din[i].indirect = 0
  BY <1>2, <1>3 DEF Needed
<1>6. /\ x < SFS_NDIRECT => Mapped(i, x) = din[i].direct[x]
      /\ x >= SFS_NDIRECT => Mapped(i, x) = entries[i][y]
  BY <1>2 DEF Mapped
<1>7. n # 0 => ent \in free /\ Cardinality(free \ {ent}) = unused - 1
  BY <1>3, <1>4, FreeSets, LowestFree
<1>8. n = 2 => /\ blk \in free /\ blk # ent
               /\ Cardinality(free \ {ent, blk}) = unused - 2
  <2>1. ASSUME n = 2 PROVE free \ {ent} \subseteq Blocks /\ free \ {ent} # {}
    BY <2>1, <1>3, <1>4, <1>7, FreeSets
  <2>2. ASSUME n = 2 PROVE blk \in free \ {ent}
    BY <2>1, <2>2, LowestFree
  <2>3. (free \ {ent}) \ {blk} = free \ {ent, blk}
    OBVIOUS
  <2>4. ASSUME n = 2 PROVE Cardinality(free \ {ent, blk}) = unused - 2
    <3> HIDE DEF ent, blk, n
    <3> DEFINE S == free \ {ent}
    <3>1. Cardinality(S \ {blk}) = Cardinality(S) - 1 /\ Cardinality(S) = unused - 1
      <4>1. S \subseteq Blocks /\ blk \in S /\ Cardinality(S) = unused - 1
        BY <2>1, <2>2, <2>4, <1>7
      <4> HIDE DEF S
      <4> QED BY <4>1, FreeSets
    <3>2. Cardinality(free \ {ent, blk}) = Cardinality(S \ {blk})
      BY <2>3, Zenon
    <3> HIDE DEF S
    <3> QED BY <3>1, <3>2, <1>3
  <2> QED BY <2>2, <2>4
<1>9. /\ din' = [din EXCEPT
             ![i].blocks = IF x = @ THEN @ + 1 ELSE @,
             ![i].direct = IF n = 1 /\ x < SFS_NDIRECT
                           THEN [@ EXCEPT ![x] = blk] ELSE @,
             ![i].indirect = IF n = 2 THEN ent ELSE @]
      /\ dirty' = [dirty EXCEPT
             ![i] = @ \/ n = 2 \/ (n = 1 /\ x < SFS_NDIRECT)]
      /\ entries' = [entries EXCEPT
             ![i] = IF n > 0 /\ x >= SFS_NDIRECT
                    THEN [@ EXCEPT ![x - SFS_NDIRECT] = blk] ELSE @]
      /\ free' = free \ (IF n = 0 THEN {} ELSE IF n = 1 THEN {blk} ELSE {ent, blk})
      /\ unused' = unused - n
  BY DEF LoadBlock
<1>10. n = 1 => blk = ent
  OBVIOUS
<1> HIDE DEF n, ent, blk
<1>11. /\ din'[i].blocks = IF x = din[i].blocks THEN x + 1 ELSE din[i].blocks
       /\ din'[i].direct = IF n = 1 /\ x < SFS_NDIRECT
                           THEN [din[i].direct EXCEPT ![x] = blk] ELSE din[i].direct
       /\ din'[i].indirect = IF n = 2 THEN ent ELSE din[i].indirect
       /\ din'[i].size = din[i].size
       /\ \A j \in Inodes \ {i} : din'[j] = din[j]
  BY <1>3, <1>9 DEF DiskInode
<1>12. /\ entries'[i] = IF n > 0 /\ x >= SFS_NDIRECT
                        THEN [entries[i] EXCEPT ![y] = blk] ELSE entries[i]
       /\ dirty'[i] = (dirty[i] \/ n = 2 \/ (n = 1 /\ x < SFS_NDIRECT))
       /\ \A j \in Inodes \ {i} : dirty'[j] = dirty[j] /\ entries'[j] = entries[j]
  BY <1>3, <1>9
<1>13. n # 0 => blk \in free
  BY <1>4, <1>7, <1>8, <1>10
<1>17. n = 2 \/ (n = 1 /\ x < SFS_NDIRECT) => dirty'[i]
  BY <1>12, Zenon
<1>14. FileTypes
  <2>1. din'[i] \in DiskInode
    <3>1. din'[i] = [size |-> din'[i].size, blocks |-> din'[i].blocks,
                     direct |-> din'[i].direct, indirect |-> din'[i].indirect]
      BY <1>3, <1>9 DEF DiskInode
    <3>2. din'[i].direct \in [Directs -> BlkNo]
      BY <1>2, <1>3, <1>11, <1>13
    <3>3. din'[i].indirect \in BlkNo
      BY <1>2, <1>3, <1>7, <1>11
    <3>4. din'[i].blocks \in Nat /\ din'[i].size \in Nat
      BY <1>3, <1>11
    <3> QED BY <3>1, <3>2, <3>3, <3>4 DEF DiskInode
  <2>2. din' \in [Inodes -> DiskInode]
    <3>1. din' = [j \in Inodes |-> din'[j]]
      BY <1>3, <1>9
    <3>2. \A j \in Inodes : din'[j] \in DiskInode
      BY <2>1, <1>3, <1>11
    <3> QED BY <3>1, <3>2
  <2>3. entries' \in [Inodes -> [Entries -> BlkNo]]
    <3>1. entries'[i] \in [Entries -> BlkNo]
      BY <1>2, <1>3, <1>4, <1>12, <1>13
    <3>2. entries' = [j \in Inodes |-> entries'[j]]
      BY <1>3, <1>9
    <3>3. \A j \in Inodes : entries'[j] \in [Entries -> BlkNo]
      BY <3>1, <1>3, <1>12
    <3> QED BY <3>2, <3>3
  <2>4. dirty' \in [Inodes -> BOOLEAN]
    BY <1>3, <1>9
  <2>5. free' \subseteq Blocks /\ unused' \in Nat
    BY <1>3, <1>4, <1>9
  <2>6. unused' = Cardinality(free')
    <3>1. CASE n = 0
      <4>1. free' = free
        BY <3>1, <1>9
      <4> QED BY <4>1, <3>1, <1>3, <1>4, <1>9
    <3>2. CASE n = 1
      <4>1. free' = free \ {ent}
        BY <3>2, <1>9, <1>10
      <4> QED BY <4>1, <3>2, <1>7, <1>9
    <3>3. CASE n = 2
      <4>1. free' = free \ {ent, blk}
        BY <3>3, <1>9
      <4> QED BY <4>1, <3>3, <1>8, <1>9
    <3> QED BY <3>1, <3>2, <3>3, <1>4
  <2> QED BY <2>2, <2>3, <2>4, <2>5, <2>6 DEF FileTypes
<1>15. OnlyFile(i)
  BY <1>11, <1>12 DEF OnlyFile
<1>16. Loaded(i, x)
  <2>1. CASE n = 0
    <3>1. OldBlock(i, x)
      BY <2>1, <1>3, <1>5, <1>9, <1>11, <1>12 DEF OldBlock
    <3> QED BY <3>1 DEF Loaded
  <2>2. CASE n = 1 /\ x < SFS_NDIRECT
    <3>1. NewDirect(i, x, blk)
      BY <2>2, <1>2, <1>3, <1>5, <1>6, <1>9, <1>11, <1>12, <1>17 DEF NewDirect
    <3> QED BY <3>1, <2>2, <1>5, <1>13 DEF Loaded
  <2>3. CASE n = 1 /\ ~(x < SFS_NDIRECT)
    <3>1. NewEntry(i, x, blk)
      BY <2>3, <1>2, <1>3, <1>5, <1>6, <1>9, <1>11, <1>12 DEF NewEntry
    <3> QED BY <3>1, <2>3, <1>5, <1>13 DEF Loaded
  <2>4. CASE n = 2
    <3>1. NewIndirect(i, x, ent, blk)
      BY <2>4, <1>2, <1>3, <1>5, <1>6, <1>8, <1>9, <1>11, <1>12, <1>17 DEF NewIndirect
    <3> QED BY <3>1, <2>4, <1>5, <1>7, <1>13 DEF Loaded
  <2> QED BY <2>1, <2>2, <2>3, <2>4, <1>4
<1> QED BY <1>1, <1>11, <1>14, <1>15, <1>16

\* sfs_bmap_truncate_nolock gives back the last block.
Freed(i, x) ==
  /\ din'[i].blocks = x /\ din'[i].indirect = din[i].indirect
  /\ dirty'[i]
  /\ x < SFS_NDIRECT => /\ din'[i].direct = [din[i].direct EXCEPT ![x] = 0]
                        /\ entries'[i] = entries[i]
  /\ x >= SFS_NDIRECT => /\ din'[i].direct = din[i].direct
                         /\ entries'[i] = [entries[i] EXCEPT ![x - SFS_NDIRECT] = 0]
  /\ free' = IF Mapped(i, x) = 0 THEN free ELSE free \union {Mapped(i, x)}

LEMMA FreeEffect ==
  ASSUME TypeOK, FreeCount, BoundOK, NEW i \in Inodes, din[i].blocks > 0,
         Mapped(i, din[i].blocks - 1) \notin free, FreeLast(i)
  PROVE  FileTypes /\ OnlyFile(i) /\ Freed(i, din[i].blocks - 1)
<1> DEFINE x == din[i].blocks - 1
           y == x - SFS_NDIRECT
           blk == Mapped(i, x)
<1>1. /\ SFS_NDIRECT \in Nat /\ SFS_BLK_NENTRY \in Nat /\ NBLK \in Nat
      /\ Blocks = BlkNo \ {0} /\ 0 \in BlkNo
  BY SfsFileAssumption DEF Blocks, BlkNo
<1>2. /\ din \in [Inodes -> DiskInode] /\ dirty \in [Inodes -> BOOLEAN]
      /\ entries \in [Inodes -> [Entries -> BlkNo]] /\ free \subseteq Blocks
      /\ unused \in Nat /\ din[i].blocks \in Nat /\ din[i].indirect \in BlkNo
      /\ din[i].direct \in [Directs -> BlkNo] /\ entries[i] \in [Entries -> BlkNo]
      /\ din[i].size \in Nat /\ unused = Cardinality(free)
  BY DEF TypeOK, DiskInode, FreeCount
<1>3. /\ x \in Nat /\ x < MaxBlocks
      /\ x < SFS_NDIRECT => x \in Directs
      /\ x >= SFS_NDIRECT => y \in Entries
  BY <1>1, <1>2 DEF BoundOK, MaxBlocks, Directs, Entries
<1>4. blk \in BlkNo
  BY <1>1, <1>2, <1>3 DEF Mapped
<1>5. /\ din' = [din EXCEPT
             ![i].blocks = x,
             ![i].direct = IF x < SFS_NDIRECT THEN [@ EXCEPT ![x] = 0] ELSE @]
      /\ dirty' = [dirty EXCEPT ![i] = TRUE]
      /\ entries' = [entries EXCEPT
             ![i] = IF x >= SFS_NDIRECT THEN [@ EXCEPT ![y] = 0] ELSE @]
      /\ free' = IF blk = 0 THEN free ELSE free \union {blk}
      /\ unused' = IF blk = 0 THEN unused ELSE unused + 1
  BY DEF FreeLast
<1>6. x = din[i].blocks - 1 /\ blk = Mapped(i, x) /\ blk \notin free
  OBVIOUS
<1> HIDE DEF x, blk
<1>7. /\ din'[i].blocks = x /\ din'[i].indirect = din[i].indirect
      /\ din'[i].size = din[i].size
      /\ din'[i].direct = IF x < SFS_NDIRECT
                          THEN [din[i].direct EXCEPT ![x] = 0] ELSE din[i].direct
      /\ \A j \in Inodes \ {i} : din'[j] = din[j]
  BY <1>2, <1>5 DEF DiskInode
<1>8. /\ dirty'[i]
      /\ entries'[i] = IF x >= SFS_NDIRECT
                       THEN [entries[i] EXCEPT ![y] = 0] ELSE entries[i]
      /\ \A j \in Inodes \ {i} : dirty'[j] = dirty[j] /\ entries'[j] = entries[j]
  BY <1>2, <1>5
<1>9. FileTypes
  <2>1. din' \in [Inodes -> DiskInode]
    <3>1. din'[i] = [size |-> din'[i].size, blocks |-> din'[i].blocks,
                     direct |-> din'[i].direct, indirect |-> din'[i].indirect]
      BY <1>2, <1>5 DEF DiskInode
    <3>2. din'[i].direct \in [Directs -> BlkNo]
      BY <1>1, <1>2, <1>3, <1>7
    <3>3. din'[i] \in DiskInode
      BY <3>1, <3>2, <1>2, <1>3, <1>7 DEF DiskInode
    <3>4. din' = [j \in Inodes |-> din'[j]]
      BY <1>2, <1>5
    <3>5. \A j \in Inodes : din'[j] \in DiskInode
      BY <3>3, <1>2, <1>7
    <3> QED BY <3>4, <3>5
  <2>2. entries' \in [Inodes -> [Entries -> BlkNo]]
    <3>1. entries'[i] \in [Entries -> BlkNo]
      BY <1>1, <1>2, <1>3, <1>8
    <3> QED BY <3>1, <1>2, <1>5
  <2>3. dirty' \in [Inodes -> BOOLEAN]
    BY <1>2, <1>5
  <2>4. free' \subseteq Blocks /\ unused' \in Nat
    BY <1>1, <1>2, <1>4, <1>5
  <2>5. unused' = Cardinality(free')
    <3>1. blk # 0 => Cardinality(free \union {blk}) = Cardinality(free) + 1
      BY <1>1, <1>2, <1>4, <1>6, FreeSets
    <3> QED BY <3>1, <1>2, <1>5
  <2> QED BY <2>1, <2>2, <2>3, <2>4, <2>5 DEF FileTypes
<1>10. OnlyFile(i)
  BY <1>7, <1>8 DEF OnlyFile
<1>11. Freed(i, x)
  BY <1>1, <1>3, <1>5, <1>6, <1>7, <1>8 DEF Freed
<1> QED BY <1>6, <1>9, <1>10, <1>11

----------------------------------------------------------------------------
(* The pieces of a transfer *)

LEMMA BType == B \in Nat /\ B > 0
BY SfsFileAssumption DEF B

\* The number of blocks of a transfer.
LEMMA Span ==
  ASSUME NEW o \in Nat, NEW e \in Nat, o <= e
  PROVE  /\ (e \div B) - (o \div B) \in Nat
         /\ ((e \div B) - (o \div B)) * B = (e \div B) * B - (o \div B) * B
         /\ (o \div B) * B <= o /\ o < (o \div B) * B + B
         /\ (e \div B) * B <= e /\ e < (e \div B) * B + B
         /\ (o \div B) * B \in Int /\ (e \div B) * B \in Int
<1>1. o \div B \in Nat /\ e \div B \in Nat
  BY DivMod
<1>2. /\ (o \div B) * B <= o /\ o < (o \div B) * B + B
      /\ (e \div B) * B <= e /\ e < (e \div B) * B + B
      /\ (o \div B) * B \in Int /\ (e \div B) * B \in Int
  BY <1>1, DivBound, TimesB
<1>3. (o \div B) * B <= e
  BY <1>2
<1>4. o \div B <= e \div B
  BY <1>1, <1>3, DivBound
<1>5. o \div B \in Int /\ e \div B \in Int
  BY <1>1
<1>6. ((e \div B) - (o \div B)) * B = (e \div B) * B - (o \div B) * B
  BY <1>5, TimesB
<1> QED BY <1>1, <1>2, <1>4, <1>6

\* The head ends at a block, or where the transfer does.
LEMMA HeadPiece ==
  ASSUME NEW o \in Nat, NEW e \in Nat, o < e, o % B # 0,
         NEW q, q = o \div B, NEW n, n = (e \div B) - q,
         NEW h, h = IF n # 0 THEN B - (o % B) ELSE e - o
  PROVE  /\ q \in Nat /\ n \in Nat /\ h \in Nat /\ h > 0 /\ o + h <= e
         /\ o + h <= q * B + B /\ q * B \in Int
         /\ n = 0 => o + h = e
         /\ n # 0 => /\ (q + 1) * B = o + h
                     /\ (n - 1) * B <= e - (o + h)
                     /\ e - (o + h) < (n - 1) * B + B
<1> DEFINE E == (e \div B) * B
<1>1. /\ q \in Nat /\ n \in Nat /\ n * B = E - q * B
      /\ q * B <= o /\ o < q * B + B
      /\ E <= e /\ e < E + B /\ E \in Int /\ q * B \in Int
  BY Span, DivMod
<1>2. o = q * B + (o % B) /\ o % B \in 0..(B - 1)
  BY DivMod
<1>3. (q + 1) * B = q * B + B /\ (n - 1) * B = n * B - B
  <2>1. q \in Int /\ n \in Int
    BY <1>1
  <2> QED BY <2>1, TimesB
<1>4. n # 0 => n * B >= B
  <2>1. 1 * B = B
    BY BType
  <2>2. n # 0 => 1 <= n
    BY <1>1
  <2> QED BY <2>1, <2>2, <1>1, TimesB
<1>5. n = 0 => n * B = 0
  BY BType
<1> DEFINE Q == q * B
           N == n * B
           r == o % B
           N1 == (n - 1) * B
           Q1 == (q + 1) * B
<1>6. /\ q \in Nat /\ n \in Nat /\ N = E - Q /\ Q <= o /\ o < Q + B
      /\ E <= e /\ e < E + B /\ E \in Int /\ Q \in Int
      /\ o = Q + r /\ r \in 0..(B - 1) /\ r # 0 /\ (n # 0 => N >= B) /\ (n = 0 => N = 0)
      /\ h = (IF n # 0 THEN B - r ELSE e - o) /\ N1 = N - B /\ Q1 = Q + B
  BY <1>1, <1>2, <1>3, <1>4, <1>5
<1> HIDE DEF E, Q, N, r, N1, Q1
<1>7. /\ h \in Nat /\ h > 0 /\ o + h <= e /\ o + h <= Q + B
      /\ n = 0 => o + h = e
      /\ n # 0 => Q1 = o + h /\ N1 <= e - (o + h) /\ e - (o + h) < N1 + B
  BY <1>6, BType
<1> QED BY <1>6, <1>7 DEF Q, N1, Q1

\* A transfer that starts at a block.
LEMMA AlignedPiece ==
  ASSUME NEW o \in Nat, NEW e \in Nat, o <= e, o % B = 0
  PROVE  /\ (o \div B) * B = o
         /\ ((e \div B) - (o \div B)) * B <= e - o
         /\ e - o < ((e \div B) - (o \div B)) * B + B
<1>1. o = (o \div B) * B + (o % B) /\ (o \div B) * B \in Int
  BY DivMod, Span
<1>2. (o \div B) * B = o
  BY <1>1
<1> DEFINE E == (e \div B) * B
<1>3. /\ ((e \div B) - (o \div B)) * B = E - o
      /\ E <= e /\ e < E + B /\ E \in Int
  BY <1>2, Span
<1> HIDE DEF E
<1>4. E - o <= e - o /\ e - o < E - o + B
  BY <1>3, BType
<1> QED BY <1>2, <1>3, <1>4

\* A whole block of the body.
LEMMA BodyPiece ==
  ASSUME NEW b \in Nat, NEW n \in Nat, NEW p \in Nat, NEW e \in Nat, n > 0,
         b * B = p, n * B <= e - p, e - p < n * B + B
  PROVE  /\ p + B <= e /\ (b + 1) * B = p + B
         /\ (n - 1) * B <= e - (p + B) /\ e - (p + B) < (n - 1) * B + B
<1>1. (b + 1) * B = p + B /\ (n - 1) * B = n * B - B /\ n * B \in Int
  BY TimesB
<1>2. n * B >= B
  <2>1. 1 * B = B
    BY BType
  <2> QED BY <2>1, TimesB
<1> DEFINE N == n * B
           N1 == (n - 1) * B
           P == (b + 1) * B
<1>3. P = p + B /\ N1 = N - B /\ N \in Int /\ N >= B /\ N <= e - p /\ e - p < N + B
  BY <1>1, <1>2
<1> HIDE DEF N, N1, P
<1>4. p + B <= e /\ P = p + B /\ N1 <= e - (p + B) /\ e - (p + B) < N1 + B
  BY <1>3, BType
<1> QED BY <1>4 DEF N1, P

----------------------------------------------------------------------------
(* Calls and types *)

TruncRec == [kind : {"trunc"}, fd : Fds, ino : Inodes, len : Nat,
             caller : {"open", "seek"}]

IoRec == [kind : {"io"}, fd : Fds, ino : Inodes, write : BOOLEAN,
          offset : Nat, end : Nat, pos : Nat, blkno : Nat, nblks : Nat,
          at : {"head", "body", "out"}]

LEMMA OpCases ==
  ASSUME op \in Op
  PROVE  /\ op.kind \in {"idle", "trunc", "io"}
         /\ op.kind = "idle" => op = Idle
         /\ op.kind = "trunc" => op \in TruncRec
         /\ op.kind = "io" => op \in IoRec
BY DEF Op, Idle, TruncRec, IoRec

LEMMA OpTypes == {Idle} \subseteq Op /\ TruncRec \subseteq Op /\ IoRec \subseteq Op
BY DEF Op, TruncRec, IoRec

\* An open file names an inode and a position; NoFile does not.
LEMMA FileCases ==
  ASSUME NEW x \in File, x # NoFile
  PROVE  /\ x.ino \in Inodes /\ x.pos \in Nat
         /\ x = [used |-> TRUE, ino |-> x.ino, pos |-> x.pos]
BY DEF File, NoFile

LEMMA UsedFile ==
  ASSUME NEW i \in Inodes, NEW p \in Nat
  PROVE  /\ [used |-> TRUE, ino |-> i, pos |-> p] \in File
         /\ [used |-> TRUE, ino |-> i, pos |-> p] # NoFile
<1>1. [used |-> TRUE, ino |-> i, pos |-> p] \in File
  BY DEF File
<1>2. [used |-> TRUE, ino |-> i, pos |-> p].used = TRUE /\ NoFile.used = FALSE
  BY DEF NoFile
<1> QED BY <1>1, <1>2

\* A new position keeps the rest of the open file.
LEMMA MoveFile ==
  ASSUME NEW x \in File, x # NoFile, NEW p
  PROVE  [x EXCEPT !.pos = p] = [used |-> TRUE, ino |-> x.ino, pos |-> p]
<1>1. x \in [used : {TRUE}, ino : Inodes, pos : Nat]
  BY DEF File
<1>2. DOMAIN x = {"used", "ino", "pos"} /\ x.used = TRUE
  BY <1>1
<1>3. [x EXCEPT !.pos = p] = [used |-> x.used, ino |-> x.ino, pos |-> p]
  BY <1>2
<1> QED BY <1>2, <1>3, Zenon

LEMMA PanicTypes ==
  ASSUME NEW i, NEW x
  PROVE  LoadPanic(i, x) \in {"none", "index", "range", "inuse", "unused"}
BY DEF LoadPanic

LEMMA EmptyType == Empty \in DiskInode /\ NoEntries \in [Entries -> BlkNo]
BY SfsFileAssumption DEF Empty, DiskInode, NoEntries, BlkNo

Panics == {"none", "index", "range", "inuse", "unused", "size", "ref_count"}

\* The parts of CallInv that concern files, and those that concern calls.
FilePart ==
  /\ din \in [Inodes -> DiskInode] /\ dirty \in [Inodes -> BOOLEAN]
  /\ ddin \in [Inodes -> DiskInode]
  /\ entries \in [Inodes -> [Entries -> BlkNo]]
  /\ free \subseteq Blocks /\ unused \in Nat /\ FreeCount /\ BoundOK

UserPart ==
  /\ ref \in [Inodes -> Nat] /\ open \in [Inodes -> Nat]
  /\ fd \in [Fds -> File] /\ op \in Op /\ panic \in Panics
  /\ cut \subseteq Inodes /\ CallOK /\ PieceOK

LEMMA CallParts == CallInv <=> FilePart /\ UserPart
BY DEF CallInv, TypeOK, FilePart, UserPart, Panics

LEMMA CallPartsNext == CallInv' <=> FilePart' /\ UserPart'
BY DEF CallInv, TypeOK, FilePart, UserPart, Panics

LEMMA FileFrame ==
  ASSUME FilePart, UNCHANGED <<fileVars, ddin>> PROVE FilePart'
BY DEF FilePart, fileVars, FreeCount, BoundOK

LEMMA CallInit == Init => CallInv
<1> SUFFICES ASSUME Init PROVE FilePart /\ UserPart
  BY CallParts
<1>1. FilePart
  <2>1. unused = Cardinality(free)
    <3>1. Cardinality(1..NBLK) = IF 1 > NBLK THEN 0 ELSE NBLK - 1 + 1
      BY FS_Interval, SfsFileAssumption
    <3> QED BY <3>1, SfsFileAssumption DEF Init, Blocks
  <2>2. BoundOK
    <3>1. Empty.blocks = 0
      BY DEF Empty
    <3> QED BY <3>1, SfsFileAssumption DEF Init, BoundOK, MaxBlocks
  <2> QED BY <2>1, <2>2, EmptyType, SfsFileAssumption DEF Init, FilePart, FreeCount
<1>2. op = Idle /\ op.kind = "idle"
  BY DEF Init, Idle
<1>3. fd \in [Fds -> File]
  BY DEF Init, File
<1>4. CallOK /\ PieceOK
  BY <1>2 DEF CallOK, PieceOK
<1> QED BY <1>1, <1>2, <1>3, <1>4, OpTypes DEF UserPart, Init, Panics

\* One more reference; a file that comes from the disk keeps its blocks.
LEMMA LoadInodeTypes ==
  ASSUME FilePart, NEW i \in Inodes, ref \in [Inodes -> Nat], LoadInode(i),
         UNCHANGED <<ddin, entries, free, unused>>
  PROVE  /\ FilePart' /\ ref' \in [Inodes -> Nat]
         /\ \A j \in Inodes : ref'[j] = IF j = i THEN ref[j] + 1 ELSE ref[j]
         /\ \A j \in Inodes : din'[j] = IF j = i /\ ref[i] = 0 THEN ddin[j] ELSE din[j]
         /\ \A j \in Inodes : dirty'[j] = IF j = i /\ ref[i] = 0 THEN FALSE ELSE dirty[j]
<1>1. /\ ref' \in [Inodes -> Nat]
      /\ \A j \in Inodes : ref'[j] = IF j = i THEN ref[j] + 1 ELSE ref[j]
  BY DEF LoadInode
<1>2. /\ \A j \in Inodes : din'[j] = IF j = i /\ ref[i] = 0 THEN ddin[j] ELSE din[j]
      /\ din' \in [Inodes -> DiskInode]
  BY DEF LoadInode, FilePart
<1>3. /\ \A j \in Inodes : dirty'[j] = IF j = i /\ ref[i] = 0 THEN FALSE ELSE dirty[j]
      /\ dirty' \in [Inodes -> BOOLEAN]
  BY DEF LoadInode, FilePart
<1>4. BoundOK'
  BY <1>2 DEF FilePart, BoundOK
<1> QED BY <1>1, <1>2, <1>3, <1>4 DEF FilePart, FreeCount

LEMMA StopCall ==
  ASSUME CallInv, NEW why \in Panics, Stop(why) PROVE CallInv'
BY CallParts, CallPartsNext
   DEF Stop, FilePart, UserPart, fileVars, vfsVars, FreeCount, BoundOK, CallOK,
       PieceOK, IsOpen, Rest

LEMMA LoadFile ==
  ASSUME CallInv, NEW i \in Inodes, NEW x \in Nat,
         LoadPanic(i, x) = "none", ~LoadFails(i, x), LoadBlock(i, x), UNCHANGED ddin
  PROVE  FilePart'
<1>1. FileTypes /\ OnlyFile(i) /\ x < MaxBlocks
      /\ din'[i].blocks = IF x = din[i].blocks THEN x + 1 ELSE din[i].blocks
  BY LoadEffect DEF CallInv
<1>2. FilePart /\ MaxBlocks \in Nat
  BY CallParts, SfsFileAssumption DEF MaxBlocks
<1>3. BoundOK'
  BY <1>1, <1>2 DEF FilePart, BoundOK, OnlyFile
<1> QED BY <1>1, <1>2, <1>3 DEF FilePart, FileTypes, FreeCount

\* The fields of the record of a transfer that goes on.
LEMMA NextPiece ==
  ASSUME NEW r \in IoRec, NEW n \in Nat, op' = [r EXCEPT !.pos = @ + n, !.blkno = @ + 1]
  PROVE  /\ op' \in IoRec /\ op'.kind = "io"
         /\ op'.pos = r.pos + n /\ op'.blkno = r.blkno + 1
         /\ op'.fd = r.fd /\ op'.ino = r.ino /\ op'.write = r.write /\ op'.at = r.at
         /\ op'.offset = r.offset /\ op'.end = r.end /\ op'.nblks = r.nblks
<1>1. op' = [kind |-> "io", fd |-> r.fd, ino |-> r.ino, write |-> r.write,
             offset |-> r.offset, end |-> r.end, pos |-> r.pos + n,
             blkno |-> r.blkno + 1, nblks |-> r.nblks, at |-> r.at]
  BY DEF IoRec
<1>2. /\ r.fd \in Fds /\ r.ino \in Inodes /\ r.write \in BOOLEAN /\ r.offset \in Nat
      /\ r.end \in Nat /\ r.pos + n \in Nat /\ r.blkno + 1 \in Nat /\ r.nblks \in Nat
      /\ r.at \in {"head", "body", "out"}
  BY DEF IoRec
<1> QED BY <1>1, <1>2 DEF IoRec

\* Every piece keeps CallInv if the record that goes on describes the rest.
LEMMA PieceStep ==
  ASSUME CallInv, op \in IoRec, NEW r \in IoRec, NEW n \in Nat, Transfer(n, r),
         r.fd = op.fd, r.ino = op.ino, r.offset = op.offset, r.end = op.end,
         r.pos = op.pos, r.at # "head",
         op.pos + n <= op.end,
         (LoadBlock(op.ino, op.blkno)
            /\ op' = [r EXCEPT !.pos = @ + n, !.blkno = @ + 1]
            /\ op'.at = "body") => Rest'
  PROVE  CallInv'
<1>1. FilePart /\ UserPart /\ op.ino \in Inodes /\ op.blkno \in Nat /\ op.kind = "io"
  BY CallParts DEF IoRec
<1>2. CASE LoadPanic(op.ino, op.blkno) # "none"
  <2>1. LoadPanic(op.ino, op.blkno) \in Panics
    BY PanicTypes DEF Panics
  <2> QED BY <2>1, <1>2, StopCall DEF Transfer
<1>3. CASE LoadPanic(op.ino, op.blkno) = "none" /\ LoadFails(op.ino, op.blkno)
  <2>1. op' = [op EXCEPT !.at = "out"] /\ UNCHANGED <<fileVars, vfsVars, fd, panic>>
    BY <1>3 DEF Transfer
  <2>2. /\ op' \in IoRec /\ op'.kind = "io" /\ op'.at = "out"
        /\ op'.fd = op.fd /\ op'.ino = op.ino /\ op'.offset = op.offset
        /\ op'.pos = op.pos /\ op'.end = op.end
    BY <2>1 DEF IoRec
  <2>3. FilePart'
    BY <2>1, <1>1, FileFrame DEF vfsVars
  <2>4. CallOK' /\ PieceOK'
    BY <2>1, <2>2, <1>1 DEF UserPart, CallOK, PieceOK, IsOpen
  <2> QED BY <2>1, <2>2, <2>3, <2>4, <1>1, OpTypes, CallPartsNext DEF UserPart, vfsVars
<1>4. CASE LoadPanic(op.ino, op.blkno) = "none" /\ ~LoadFails(op.ino, op.blkno)
  <2>1. /\ LoadBlock(op.ino, op.blkno) /\ UNCHANGED <<vfsVars, fd, panic>>
        /\ op' = [r EXCEPT !.pos = @ + n, !.blkno = @ + 1]
    BY <1>4 DEF Transfer
  <2>2. FilePart'
    BY <2>1, <1>1, <1>4, LoadFile DEF vfsVars
  <2>3. /\ op' \in IoRec /\ op'.kind = "io" /\ op'.pos = r.pos + n
        /\ op'.fd = r.fd /\ op'.ino = r.ino /\ op'.at = r.at
        /\ op'.offset = r.offset /\ op'.end = r.end
    BY <2>1, NextPiece
  <2>4. CallOK'
    BY <2>1, <2>3, <1>1 DEF UserPart, CallOK, IsOpen
  <2>5. PieceOK'
    <3>1. op.offset <= op.pos /\ op.offset \in Nat /\ op.pos \in Nat
      BY <1>1 DEF UserPart, PieceOK, IoRec
    <3> QED BY <3>1, <2>1, <2>3, <1>1 DEF PieceOK
  <2> QED BY <2>1, <2>2, <2>3, <2>4, <2>5, <1>1, OpTypes, CallPartsNext
          DEF UserPart, vfsVars
<1> QED BY <1>2, <1>3, <1>4

LEMMA HeadStep == ASSUME CallInv, IoHead PROVE CallInv'
<1> DEFINE r == [op EXCEPT !.at = "body", !.nblks = IF @ # 0 THEN @ - 1 ELSE @]
<1>1. op \in IoRec /\ op.at = "head" /\ op.kind = "io" /\ Transfer(HeadSize, r)
  BY OpCases DEF IoHead, Doing, CallInv, TypeOK
<1>2. /\ op.offset \in Nat /\ op.end \in Nat /\ op.pos = op.offset /\ op.pos < op.end
      /\ op.offset % B # 0 /\ op.blkno = op.offset \div B
      /\ op.nblks = (op.end \div B) - op.blkno
      /\ op.nblks \in Nat /\ op.blkno \in Nat
  BY <1>1 DEF CallInv, PieceOK, IoRec
<1>3. HeadSize = IF op.nblks # 0 THEN B - (op.offset % B) ELSE op.end - op.offset
  BY DEF HeadSize, B
<1>4. /\ HeadSize \in Nat /\ op.offset + HeadSize <= op.end
      /\ op.nblks = 0 => op.offset + HeadSize = op.end
      /\ op.nblks # 0 => /\ (op.blkno + 1) * B = op.offset + HeadSize
                         /\ (op.nblks - 1) * B <= op.end - (op.offset + HeadSize)
                         /\ op.end - (op.offset + HeadSize) < (op.nblks - 1) * B + B
  BY <1>2, <1>3, HeadPiece
<1>5. /\ r \in IoRec /\ r.fd = op.fd /\ r.ino = op.ino /\ r.offset = op.offset
      /\ r.end = op.end /\ r.pos = op.pos /\ r.at = "body" /\ r.blkno = op.blkno
      /\ r.nblks = IF op.nblks # 0 THEN op.nblks - 1 ELSE op.nblks
  <2> DEFINE m == IF op.nblks # 0 THEN op.nblks - 1 ELSE op.nblks
  <2>1. m \in Nat
    BY <1>2
  <2>2. r = [kind |-> "io", fd |-> op.fd, ino |-> op.ino, write |-> op.write,
             offset |-> op.offset, end |-> op.end, pos |-> op.pos,
             blkno |-> op.blkno, nblks |-> m, at |-> "body"]
    <3>1. r = [op EXCEPT !.at = "body", !.nblks = m]
      <4>1. CASE op.nblks = 0
        BY <4>1, <1>1 DEF IoRec
      <4>2. CASE op.nblks # 0
        BY <4>2, <1>1 DEF IoRec
      <4> QED BY <4>1, <4>2
    <3> HIDE DEF m, r
    <3> QED BY <3>1, <1>1 DEF IoRec
  <2> HIDE DEF m, r
  <2>3. r \in IoRec
    BY <2>1, <2>2, <1>1 DEF IoRec
  <2> QED BY <2>2, <2>3 DEF m
<1> HIDE DEF r
<1>6. ASSUME op' = [r EXCEPT !.pos = @ + HeadSize, !.blkno = @ + 1] PROVE Rest'
  <2>1. /\ op'.pos = op.offset + HeadSize /\ op'.blkno = op.blkno + 1
        /\ op'.end = op.end /\ op'.nblks = r.nblks
    <3> DEFINE h == HeadSize
    <3>1. h \in Nat /\ op' = [r EXCEPT !.pos = @ + h, !.blkno = @ + 1] /\ r \in IoRec
      BY <1>4, <1>5, <1>6
    <3> HIDE DEF h
    <3>2. /\ op'.pos = r.pos + h /\ op'.blkno = r.blkno + 1
          /\ op'.end = r.end /\ op'.nblks = r.nblks
      BY <3>1, NextPiece
    <3> QED BY <3>2, <1>2, <1>5 DEF h
  <2> QED BY <2>1, <1>2, <1>4, <1>5 DEF Rest
<1> QED BY <1>1, <1>2, <1>4, <1>5, <1>6, PieceStep

LEMMA BlockStep == ASSUME CallInv, IoBlock PROVE CallInv'
<1> DEFINE r == [op EXCEPT !.nblks = @ - 1]
<1>1. /\ op \in IoRec /\ op.at = "body" /\ op.kind = "io" /\ op.nblks > 0
      /\ Transfer(B, r)
  BY OpCases DEF IoBlock, Doing, CallInv, TypeOK, B
<1>2. /\ op.end \in Nat /\ op.pos \in Nat /\ op.nblks \in Nat /\ op.blkno \in Nat
      /\ op.blkno * B = op.pos /\ op.nblks * B <= op.end - op.pos
      /\ op.end - op.pos < op.nblks * B + B
  BY <1>1 DEF CallInv, PieceOK, Rest, IoRec
<1>3. /\ op.pos + B <= op.end /\ (op.blkno + 1) * B = op.pos + B
      /\ (op.nblks - 1) * B <= op.end - (op.pos + B)
      /\ op.end - (op.pos + B) < (op.nblks - 1) * B + B
  BY <1>1, <1>2, BodyPiece
<1>4. /\ r \in IoRec /\ r.fd = op.fd /\ r.ino = op.ino /\ r.offset = op.offset
      /\ r.end = op.end /\ r.pos = op.pos /\ r.at = "body" /\ r.blkno = op.blkno
      /\ r.nblks = op.nblks - 1
  BY <1>1, <1>2 DEF IoRec
<1> HIDE DEF r
<1>5. ASSUME op' = [r EXCEPT !.pos = @ + B, !.blkno = @ + 1] PROVE Rest'
  <2>1. /\ op'.pos = op.pos + B /\ op'.blkno = op.blkno + 1
        /\ op'.end = op.end /\ op'.nblks = op.nblks - 1
    BY <1>4, <1>5, NextPiece, BType
  <2> QED BY <2>1, <1>3 DEF Rest
<1> QED BY <1>1, <1>3, <1>4, <1>5, PieceStep, BType

LEMMA TailStep == ASSUME CallInv, IoTail PROVE CallInv'
<1> DEFINE r == [op EXCEPT !.at = "out"]
           n == op.end - op.pos
<1>1. /\ op \in IoRec /\ op.kind = "io" /\ op.pos < op.end /\ Transfer(n, r)
  BY OpCases DEF IoTail, Doing, CallInv, TypeOK
<1>2. op.end \in Nat /\ op.pos \in Nat /\ n \in Nat /\ op.pos + n = op.end
  BY <1>1 DEF IoRec
<1>3. /\ r \in IoRec /\ r.fd = op.fd /\ r.ino = op.ino /\ r.offset = op.offset
      /\ r.end = op.end /\ r.pos = op.pos /\ r.at = "out"
  BY <1>1 DEF IoRec
<1> HIDE DEF r, n
<1>4. ASSUME op' = [r EXCEPT !.pos = @ + n, !.blkno = @ + 1] PROVE op'.at = "out"
  BY <1>2, <1>3, <1>4, NextPiece
<1>5. op.pos + n <= op.end /\ r.at # "head"
  BY <1>2, <1>3
<1>6. (LoadBlock(op.ino, op.blkno) /\ op' = [r EXCEPT !.pos = @ + n, !.blkno = @ + 1]
        /\ op'.at = "body") => Rest'
  BY <1>4
<1> QED BY <1>1, <1>2, <1>3, <1>5, <1>6, PieceStep

\* The start of a transfer: reads are cut at the end of the file.
LEMMA StartStep ==
  ASSUME CallInv, NEW f \in Fds, NEW len \in Lens, NEW write \in BOOLEAN,
         StartIo(f, len, write)
  PROVE  CallInv'
<1> DEFINE i == fd[f].ino
           o == fd[f].pos
           e == EndPos(i, o, len, write)
<1>1. FilePart /\ UserPart /\ fd[f] # NoFile /\ fd[f] \in File
  BY CallParts DEF StartIo, UserPart
<1>2. i \in Inodes /\ o \in Nat /\ len \in Nat /\ len > 0 /\ din[i].size \in Nat
      /\ SFS_MAX_FILE_SIZE \in Nat
  BY <1>1, FileCases, SfsFileAssumption DEF FilePart, DiskInode
<1>3. CASE CheckFails(i)
  BY <1>3, StopCall DEF StartIo, Panics
<1>4. CASE ~CheckFails(i)
  <2>1. /\ o < SFS_MAX_FILE_SIZE /\ (write \/ o < din[i].size)
        /\ op' = [kind |-> "io", fd |-> f, ino |-> i, write |-> write,
                  offset |-> o, end |-> e, pos |-> o, blkno |-> o \div B,
                  nblks |-> (e \div B) - (o \div B),
                  at |-> IF o % B # 0 THEN "head" ELSE "body"]
        /\ UNCHANGED <<fileVars, vfsVars, fd, panic>>
    BY <1>4 DEF StartIo, B
  <2>2. e \in Nat /\ o < e
    BY <2>1, <1>2 DEF EndPos, Least
  <2> HIDE DEF e
  <2>3. o \div B \in Nat /\ (e \div B) - (o \div B) \in Nat
    <3>1. o \in Nat /\ e \in Nat /\ o <= e
      BY <2>2, <1>2
    <3> HIDE DEF o
    <3> QED BY <3>1, DivMod, Span
  <2>4. op' \in IoRec
    BY <2>1, <2>2, <2>3, <1>2 DEF IoRec
  <2>5. PieceOK'
    <3>1. CASE o % B # 0
      BY <3>1, <2>1, <2>2, <1>2 DEF PieceOK
    <3>2. CASE o % B = 0
      <4>1. /\ op'.at = "body" /\ op'.pos = o /\ op'.end = e /\ op'.offset = o
            /\ op'.blkno = o \div B /\ op'.nblks = (e \div B) - (o \div B)
        BY <3>2, <2>1
      <4>2. Rest'
        BY <4>1, <3>2, <2>2, <1>2, AlignedPiece DEF Rest
      <4> QED BY <4>1, <4>2, <2>2, <1>2 DEF PieceOK
    <3> QED BY <3>1, <3>2
  <2>6. CallOK'
    BY <2>1, <1>1 DEF CallOK, IsOpen
  <2>7. FilePart'
    BY <2>1, <1>1, FileFrame DEF vfsVars
  <2> QED BY <2>1, <2>4, <2>5, <2>6, <2>7, <1>1, OpTypes, CallPartsNext
          DEF UserPart, vfsVars
<1> QED BY <1>3, <1>4

\* A new size keeps the rest of the inode.
LEMMA ResizeTypes ==
  ASSUME FilePart, NEW i \in Inodes, NEW n \in Nat,
         din' = [din EXCEPT ![i].size = n], UNCHANGED ddin
  PROVE  /\ din' \in [Inodes -> DiskInode] /\ BoundOK'
         /\ din'[i].size = n /\ din'[i].blocks = din[i].blocks
         /\ din'[i].direct = din[i].direct /\ din'[i].indirect = din[i].indirect
         /\ \A j \in Inodes \ {i} : din'[j] = din[j]
<1>1. din \in [Inodes -> DiskInode] /\ BoundOK
  BY DEF FilePart
<1>2. din'[i] = [size |-> n, blocks |-> din[i].blocks, direct |-> din[i].direct,
                 indirect |-> din[i].indirect]
  BY <1>1 DEF DiskInode
<1>3. \A j \in Inodes \ {i} : din'[j] = din[j]
  BY <1>1
<1>4. din'[i] \in DiskInode
  BY <1>1, <1>2 DEF DiskInode
<1>5. din' = [j \in Inodes |-> din'[j]]
  BY <1>1
<1>6. din' \in [Inodes -> DiskInode]
  BY <1>1, <1>3, <1>4, <1>5
<1>7. BoundOK'
  BY <1>1, <1>2, <1>3 DEF BoundOK
<1> QED BY <1>2, <1>3, <1>6, <1>7

LEMMA OutStep == ASSUME CallInv, IoOut PROVE CallInv'
<1> DEFINE i == op.ino
           g == op.fd
<1>1. FilePart /\ UserPart /\ op \in IoRec /\ op.kind = "io" /\ i \in Inodes
      /\ g \in Fds
  BY CallParts, OpCases DEF IoOut, Doing, UserPart, IoRec
<1>2. /\ op.pos \in Nat /\ op.offset \in Nat /\ op.offset <= op.pos
      /\ fd[g] \in File /\ fd[g] # NoFile /\ fd[g].pos = op.offset
      /\ fd[g] = [used |-> TRUE, ino |-> fd[g].ino, pos |-> fd[g].pos]
      /\ fd[g].ino \in Inodes
  BY <1>1, FileCases DEF UserPart, PieceOK, CallOK, IsOpen, IoRec
<1>3. fd' \in [Fds -> File]
  <2>0. fd[g].pos + (op.pos - op.offset) = op.pos
    BY <1>2
  <2>1. [fd[g] EXCEPT !.pos = @ + (op.pos - op.offset)]
          = [used |-> TRUE, ino |-> fd[g].ino, pos |-> op.pos]
    <3>1. [fd[g] EXCEPT !.pos = op.pos] = [used |-> TRUE, ino |-> fd[g].ino, pos |-> op.pos]
      BY <1>2, MoveFile
    <3> QED BY <2>0, <3>1
  <2>2. [fd[g] EXCEPT !.pos = @ + (op.pos - op.offset)] \in File
    BY <2>1, <1>2, UsedFile
  <2> QED BY <2>2, <1>1 DEF IoOut, UserPart
<1>4. op' = Idle /\ UNCHANGED <<ddin, entries, free, unused, ref, open, cut, panic>>
  BY DEF IoOut
<1>5. CallOK' /\ PieceOK' /\ op' \in Op
  BY <1>4, OpTypes DEF CallOK, PieceOK, Idle
<1>6. FilePart'
  <2>1. CASE op.pos > din[i].size
    <3>1. din' = [din EXCEPT ![i].size = op.pos] /\ dirty' = [dirty EXCEPT ![i] = TRUE]
      BY <2>1 DEF IoOut
    <3>2. din' \in [Inodes -> DiskInode] /\ BoundOK'
      BY <3>1, <1>1, <1>2, <1>4, ResizeTypes
    <3> QED BY <3>1, <3>2, <1>1, <1>4 DEF FilePart, FreeCount
  <2>2. CASE ~(op.pos > din[i].size)
    BY <2>2, <1>1, <1>4, FileFrame DEF IoOut, fileVars
  <2> QED BY <2>1, <2>2
<1> QED BY <1>1, <1>3, <1>4, <1>5, <1>6, CallPartsNext DEF UserPart

LEMMA TruncStep ==
  ASSUME CallInv, TruncGrow \/ TruncShrink \/ TruncDone PROVE CallInv'
<1> DEFINE i == op.ino
           g == op.fd
<1>1. /\ FilePart /\ UserPart /\ op \in TruncRec /\ op.kind = "trunc"
      /\ i \in Inodes /\ g \in Fds /\ op.len \in Nat
  BY CallParts, OpCases DEF TruncGrow, TruncShrink, TruncDone, Doing, UserPart, TruncRec
<1>2. din[i].blocks \in Nat /\ RoundUpDiv(op.len, SFS_BLKSIZE) \in Nat
  BY <1>1, RoundUp DEF FilePart, DiskInode
<1>3. ASSUME UNCHANGED <<ref, open, cut, fd, op, panic>>, FilePart' PROVE CallInv'
  BY <1>1, <1>3, CallPartsNext DEF UserPart, CallOK, PieceOK, IsOpen, Rest
<1>4. ASSUME NEW ok \in BOOLEAN, TruncReturn(ok), FilePart', UNCHANGED <<ref, open, panic>>,
             cut' \subseteq Inodes
      PROVE  CallInv'
  <2>1. op' = Idle
    BY <1>4 DEF TruncReturn
  <2>2. CallOK' /\ PieceOK' /\ op' \in Op
    BY <2>1, OpTypes DEF CallOK, PieceOK, Idle
  <2>3. [used |-> TRUE, ino |-> i, pos |-> op.len] \in File
    BY <1>1, UsedFile
  <2>4. fd' \in [Fds -> File]
    BY <2>3, <1>1, <1>4 DEF TruncReturn, UserPart
  <2> QED BY <2>2, <2>4, <1>1, <1>4, CallPartsNext DEF UserPart
<1>5. CASE TruncGrow
  <2> DEFINE x == din[i].blocks
  <2>1. CASE LoadPanic(i, x) # "none"
    <3>1. LoadPanic(i, x) \in Panics
      BY PanicTypes DEF Panics
    <3> QED BY <3>1, <2>1, <1>5, StopCall DEF TruncGrow
  <2>2. CASE LoadPanic(i, x) = "none" /\ LoadFails(i, x)
    <3>1. TruncReturn(FALSE) /\ UNCHANGED <<fileVars, ddin, ref, open, panic>>
          /\ cut' = cut \union {i}
      BY <2>2, <1>5 DEF TruncGrow
    <3>2. FilePart' /\ cut' \subseteq Inodes
      BY <3>1, <1>1, FileFrame DEF UserPart
    <3> QED BY <3>1, <3>2, <1>4
  <2>3. CASE LoadPanic(i, x) = "none" /\ ~LoadFails(i, x)
    <3>1. LoadBlock(i, x) /\ UNCHANGED <<vfsVars, fd, op, panic>>
      BY <2>3, <1>5 DEF TruncGrow
    <3> QED BY <3>1, <2>3, <1>1, <1>2, <1>3, LoadFile DEF vfsVars
  <2> QED BY <2>1, <2>2, <2>3
<1>6. CASE TruncShrink
  <2>1. din[i].blocks > 0
    BY <1>2, <1>6 DEF TruncShrink
  <2>2. CASE Mapped(i, din[i].blocks - 1) \in free
    BY <2>2, <1>6, StopCall DEF TruncShrink, Panics
  <2>3. CASE Mapped(i, din[i].blocks - 1) \notin free
    <3>1. FreeLast(i) /\ UNCHANGED <<vfsVars, fd, op, panic>>
      BY <2>3, <1>6 DEF TruncShrink
    <3>2. FileTypes /\ OnlyFile(i) /\ Freed(i, din[i].blocks - 1)
      BY <3>1, <2>1, <2>3, <1>1, FreeEffect DEF CallInv
    <3>3. BoundOK'
      BY <3>1, <3>2, <1>1, <1>2, SfsFileAssumption
         DEF FilePart, BoundOK, OnlyFile, Freed, vfsVars, MaxBlocks
    <3>4. FilePart'
      BY <3>1, <3>2, <3>3, <1>1 DEF FilePart, FileTypes, FreeCount, vfsVars
    <3> QED BY <3>1, <3>4, <1>3 DEF vfsVars
  <2> QED BY <2>2, <2>3
<1>7. CASE TruncDone
  <2>1. /\ din' = [din EXCEPT ![i].size = op.len]
        /\ dirty' = [dirty EXCEPT ![i] = TRUE]
        /\ TruncReturn(TRUE) /\ cut' = cut \ {i}
        /\ UNCHANGED <<ddin, entries, free, unused, ref, open, panic>>
    BY <1>7 DEF TruncDone
  <2>2. din' \in [Inodes -> DiskInode] /\ BoundOK'
    BY <2>1, <1>1, ResizeTypes
  <2>3. FilePart'
    BY <2>1, <2>2, <1>1 DEF FilePart, FreeCount
  <2>4. cut' \subseteq Inodes
    BY <2>1, <1>1 DEF UserPart
  <2> QED BY <2>1, <2>3, <2>4, <1>4
<1> QED BY <1>5, <1>6, <1>7

\* An open descriptor is counted.
LEMMA OpenCounted ==
  ASSUME CallInv, CountsOK, NEW f \in Fds, IsOpen(f)
  PROVE  /\ fd[f].ino \in Inodes
         /\ open[fd[f].ino] \in Nat /\ open[fd[f].ino] > 0
         /\ ref[fd[f].ino] \in Nat /\ ref[fd[f].ino] > 0
<1> DEFINE i == fd[f].ino
           S == {g \in Fds : fd[g] # NoFile /\ fd[g].ino = i}
<1>1. i \in Inodes /\ open[i] \in Nat /\ ref[i] \in Nat
  BY FileCases DEF CallInv, TypeOK, IsOpen
<1>2. f \in S /\ S \subseteq Fds
  BY DEF IsOpen
<1>3. IsFiniteSet(S)
  BY <1>2, FS_Subset, SfsFileAssumption
<1>4. Cardinality(S) \in Nat /\ Cardinality(S) # 0
  BY <1>2, <1>3, FS_CardinalityType, FS_EmptySet
<1>5. Count(i) = Cardinality(S)
  BY DEF Count
<1> HIDE DEF i, S
<1>6. ref[i] >= open[i] /\ open[i] = Count(i) + (IF /\ op.kind = "trunc"
                                                    /\ op.caller = "open"
                                                    /\ op.ino = i THEN 1 ELSE 0)
  BY <1>1 DEF CountsOK
<1>7. open[i] > 0 /\ ref[i] > 0
  BY <1>1, <1>4, <1>5, <1>6
<1> QED BY <1>1, <1>7 DEF i

LEMMA OpenCountedNext ==
  ASSUME CallInv', CountsOK', NEW f \in Fds, IsOpen(f)'
  PROVE  fd'[f].ino \in Inodes /\ ref'[fd'[f].ino] > 0
<1> DEFINE i == fd'[f].ino
           S == {g \in Fds : fd'[g] # NoFile /\ fd'[g].ino = i}
<1>1. i \in Inodes /\ open'[i] \in Nat /\ ref'[i] \in Nat
  BY FileCases DEF CallInv, TypeOK, IsOpen
<1>2. f \in S /\ S \subseteq Fds
  BY DEF IsOpen
<1>3. IsFiniteSet(S)
  BY <1>2, FS_Subset, SfsFileAssumption
<1>4. Cardinality(S) \in Nat /\ Cardinality(S) # 0
  BY <1>2, <1>3, FS_CardinalityType, FS_EmptySet
<1>5. ref'[i] >= open'[i] /\ open'[i] >= Cardinality(S)
  BY <1>1, <1>4 DEF CountsOK, Count
<1> HIDE DEF i, S
<1>6. ref'[i] > 0
  BY <1>1, <1>4, <1>5
<1> QED BY <1>1, <1>6 DEF i

\* The calls on descriptors.
LEMMA DescriptorStep ==
  ASSUME CallInv, CountsOK,
         \/ \E f \in Fds, i \in Inodes, trunc, append \in BOOLEAN : Open(f, i, trunc, append)
         \/ \E i \in Inodes : OpenExcl(i)
         \/ \E f, g \in Fds : Dup(f, g)
         \/ \E f \in Fds : Close(f)
         \/ \E f \in Fds : Fsync(f)
         \/ \E f \in Fds, pos \in Seeks : Seek(f, pos)
  PROVE  CallInv'
<1>1. FilePart /\ UserPart
  BY CallParts
<1>2. op = Idle /\ panic = "none" /\ op.kind = "idle"
  BY DEF Open, OpenExcl, Dup, Close, Fsync, Seek, Ready, Idle
<1>3. ASSUME op' = Idle PROVE CallOK' /\ PieceOK' /\ op' \in Op
  BY <1>3, OpTypes DEF CallOK, PieceOK, Idle
<1>4. ASSUME NEW f \in Fds, NEW i \in Inodes, NEW trunc \in BOOLEAN,
             NEW append \in BOOLEAN, Open(f, i, trunc, append)
      PROVE  CallInv'
  <2>1. CASE ref[i] + 1 >= MAX_INODE_COUNT
    BY <2>1, <1>4, StopCall DEF Open, Panics
  <2>2. CASE ~(ref[i] + 1 >= MAX_INODE_COUNT)
    <3>1. /\ LoadInode(i) /\ open' = [open EXCEPT ![i] = @ + 1]
          /\ UNCHANGED <<ddin, entries, free, unused, cut>> /\ fd[f] = NoFile
      BY <2>2, <1>4 DEF Open
    <3>2. FilePart' /\ ref' \in [Inodes -> Nat]
      BY <3>1, <1>1, LoadInodeTypes DEF UserPart
    <3>3. open' \in [Inodes -> Nat] /\ cut' \subseteq Inodes
      BY <3>1, <1>1 DEF UserPart
    <3>4. CASE trunc /\ din'[i].size # 0
      <4>1. op' = TruncOp(f, i, 0, "open") /\ UNCHANGED <<fd, panic>>
        BY <3>4, <2>2, <1>4 DEF Open
      <4>2. op' \in TruncRec /\ op'.kind = "trunc" /\ op'.fd = f /\ op'.len = 0
            /\ op'.caller = "open"
        BY <4>1 DEF TruncOp, TruncRec
      <4>3. CallOK' /\ PieceOK'
        BY <4>1, <4>2, <3>1 DEF CallOK, PieceOK
      <4> QED BY <4>1, <4>2, <4>3, <3>2, <3>3, <1>1, OpTypes, CallPartsNext DEF UserPart
    <3>5. CASE ~(trunc /\ din'[i].size # 0)
      <4>1. /\ fd' = [fd EXCEPT ![f] = [used |-> TRUE, ino |-> i,
                                        pos |-> IF append THEN din'[i].size ELSE 0]]
            /\ panic' = IF trunc /\ din'[i].blocks # 0 THEN "size" ELSE panic
            /\ UNCHANGED op
        BY <3>5, <2>2, <1>4 DEF Open
      <4>2. (IF append THEN din'[i].size ELSE 0) \in Nat
        BY <3>2 DEF FilePart, DiskInode
      <4>3. fd' \in [Fds -> File]
        BY <4>1, <4>2, <1>1, UsedFile DEF UserPart
      <4>4. panic' \in Panics /\ op' = Idle
        BY <4>1, <1>2 DEF Panics
      <4> QED BY <4>3, <4>4, <3>2, <3>3, <1>3, CallPartsNext DEF UserPart
    <3> QED BY <3>4, <3>5
  <2> QED BY <2>1, <2>2
<1>5. ASSUME NEW i \in Inodes, OpenExcl(i) PROVE CallInv'
  <2>1. LoadInode(i) /\ UNCHANGED <<ddin, entries, free, unused, open, cut, fd, op, panic>>
    BY <1>5 DEF OpenExcl
  <2>2. FilePart' /\ ref' \in [Inodes -> Nat]
    BY <2>1, <1>1, LoadInodeTypes DEF UserPart
  <2> QED BY <2>1, <2>2, <1>1, <1>2, <1>3, CallPartsNext DEF UserPart
<1>6. ASSUME NEW f \in Fds, NEW g \in Fds, Dup(f, g) PROVE CallInv'
  <2>1. FilePart'
    BY <1>1, <1>6, FileFrame DEF Dup
  <2>2. /\ fd' = [fd EXCEPT ![g] = fd[f]] /\ UNCHANGED <<cut, op, panic>>
        /\ ref' = [ref EXCEPT ![fd[f].ino] = @ + 1]
        /\ open' = [open EXCEPT ![fd[f].ino] = @ + 1]
    BY <1>6 DEF Dup
  <2>3. ref' \in [Inodes -> Nat] /\ open' \in [Inodes -> Nat]
    <3> DEFINE i == fd[f].ino
    <3>1. i \in Inodes /\ ref \in [Inodes -> Nat] /\ open \in [Inodes -> Nat]
      BY <1>1, <1>6, FileCases DEF Dup, UserPart
    <3> HIDE DEF i
    <3>2. ref' = [ref EXCEPT ![i] = @ + 1] /\ open' = [open EXCEPT ![i] = @ + 1]
      BY <2>2 DEF i
    <3> QED BY <3>1, <3>2
  <2>4. fd' \in [Fds -> File]
    BY <2>2, <1>1 DEF UserPart
  <2> QED BY <2>1, <2>2, <2>3, <2>4, <1>1, <1>2, <1>3, CallPartsNext DEF UserPart
<1>7. ASSUME NEW f \in Fds, Close(f) PROVE CallInv'
  <2> DEFINE i == fd[f].ino
  <2>1. CASE CheckFails(i) /\ open[i] = 1
    BY <2>1, <1>7, StopCall DEF Close, Panics
  <2>2. CASE ~(CheckFails(i) /\ open[i] = 1)
    <3>1. /\ fd' = [fd EXCEPT ![f] = NoFile]
          /\ open' = [open EXCEPT ![i] = @ - 1]
          /\ ref' = [ref EXCEPT ![i] = @ - 1]
          /\ IF open[i] = 1 THEN Sync(i) ELSE UNCHANGED <<ddin, dirty>>
          /\ din' = IF ref[i] = 1 THEN [din EXCEPT ![i] = Empty] ELSE din
          /\ UNCHANGED <<entries, free, unused, cut, op, panic>>
      BY <2>2, <1>7 DEF Close
    <3>2. /\ i \in Inodes /\ open[i] \in Nat /\ open[i] > 0
          /\ ref[i] \in Nat /\ ref[i] > 0
      BY <1>7, OpenCounted DEF Close, IsOpen
    <3>3. open' \in [Inodes -> Nat] /\ ref' \in [Inodes -> Nat]
      BY <3>1, <3>2, <1>1 DEF UserPart
    <3>4. fd' \in [Fds -> File]
      BY <3>1, <1>1 DEF UserPart, File
    <3>5. /\ din' \in [Inodes -> DiskInode]
          /\ \A j \in Inodes : din'[j] = din[j] \/ din'[j] = Empty
      BY <3>1, <3>2, <1>1, EmptyType DEF FilePart
    <3>6. /\ ddin' \in [Inodes -> DiskInode] /\ dirty' \in [Inodes -> BOOLEAN]
          /\ \A j \in Inodes : ddin'[j] = ddin[j] \/ ddin'[j] = din[j]
      BY <3>1, <3>2, <1>1 DEF FilePart, Sync
    <3>7. BoundOK'
      BY <3>5, <3>6, <1>1, SfsFileAssumption DEF FilePart, BoundOK, Empty, MaxBlocks
    <3>8. FilePart'
      BY <3>1, <3>5, <3>6, <3>7, <1>1 DEF FilePart, FreeCount
    <3> QED BY <3>1, <3>3, <3>4, <3>8, <1>1, <1>2, <1>3, CallPartsNext DEF UserPart
  <2> QED BY <2>1, <2>2
<1>8. ASSUME NEW f \in Fds, Fsync(f) PROVE CallInv'
  <2> DEFINE i == fd[f].ino
  <2>1. CASE CheckFails(i)
    BY <2>1, <1>8, StopCall DEF Fsync, Panics
  <2>2. CASE ~CheckFails(i)
    <3>1. Sync(i) /\ UNCHANGED <<din, entries, free, unused, ref, open, cut, fd, op, panic>>
      BY <2>2, <1>8 DEF Fsync
    <3>2. i \in Inodes
      BY <1>8, OpenCounted DEF Fsync, IsOpen
    <3>3. /\ ddin' \in [Inodes -> DiskInode] /\ dirty' \in [Inodes -> BOOLEAN]
          /\ \A j \in Inodes : ddin'[j] = ddin[j] \/ ddin'[j] = din[j]
      BY <3>1, <3>2, <1>1 DEF FilePart, Sync
    <3>4. FilePart'
      BY <3>1, <3>3, <1>1 DEF FilePart, FreeCount, BoundOK
    <3> QED BY <3>1, <3>4, <1>1, <1>2, <1>3, CallPartsNext DEF UserPart
  <2> QED BY <2>1, <2>2
<1>9. ASSUME NEW f \in Fds, NEW pos \in Seeks, Seek(f, pos) PROVE CallInv'
  <2> DEFINE i == fd[f].ino
  <2>1. fd[f] # NoFile /\ fd[f] \in File /\ i \in Inodes /\ pos \in Nat
    BY <1>1, <1>9, FileCases, SfsFileAssumption DEF Seek, UserPart
  <2>2. CASE CheckFails(i)
    BY <2>2, <1>9, StopCall DEF Seek, Panics
  <2>3. CASE ~CheckFails(i) /\ pos > din[i].size
    <3>1. op' = TruncOp(f, i, pos, "seek") /\ UNCHANGED <<fileVars, vfsVars, fd, panic>>
      BY <2>3, <1>9 DEF Seek
    <3>2. /\ op' \in TruncRec /\ op'.kind = "trunc" /\ op'.fd = f
          /\ op'.caller = "seek" /\ op'.ino = i
      BY <3>1, <2>1 DEF TruncOp, TruncRec
    <3>3. CallOK' /\ PieceOK'
      BY <3>1, <3>2, <2>1 DEF CallOK, PieceOK, IsOpen
    <3>4. FilePart'
      BY <3>1, <1>1, FileFrame DEF vfsVars
    <3> QED BY <3>1, <3>2, <3>3, <3>4, <1>1, OpTypes, CallPartsNext DEF UserPart, vfsVars
  <2>4. CASE ~CheckFails(i) /\ ~(pos > din[i].size)
    <3>1. fd' = [fd EXCEPT ![f].pos = pos] /\ UNCHANGED <<fileVars, vfsVars, op, panic>>
      BY <2>4, <1>9 DEF Seek
    <3>2. fd' \in [Fds -> File]
      BY <3>1, <2>1, <1>1 DEF UserPart, File, NoFile
    <3>3. FilePart'
      BY <3>1, <1>1, FileFrame DEF vfsVars
    <3> QED BY <3>1, <3>2, <3>3, <1>1, <1>2, <1>3, CallPartsNext DEF UserPart, vfsVars
  <2> QED BY <2>2, <2>3, <2>4
<1> QED BY <1>4, <1>5, <1>6, <1>7, <1>8, <1>9

LEMMA CallStutter == ASSUME CallInv, UNCHANGED vars PROVE CallInv'
BY CallParts, CallPartsNext
   DEF vars, FilePart, UserPart, FreeCount, BoundOK, CallOK, PieceOK, IsOpen, Rest

LEMMA CallNext == ASSUME CallInv, CountsOK, [Next]_vars PROVE CallInv'
BY DescriptorStep, StartStep, TruncStep, HeadStep, BlockStep, TailStep, OutStep,
   CallStutter DEF Next

----------------------------------------------------------------------------
(* Reference counts *)

Users(i) == {f \in Fds : fd[f] # NoFile /\ fd[f].ino = i}
Opening(i) == op.kind = "trunc" /\ op.caller = "open" /\ op.ino = i

LEMMA UsersFinite ==
  \A i : /\ IsFiniteSet(Users(i)) /\ Count(i) = Cardinality(Users(i))
         /\ Cardinality(Users(i)) \in Nat
<1> TAKE i
<1>1. Users(i) \subseteq Fds
  BY DEF Users
<1>2. IsFiniteSet(Users(i))
  BY <1>1, FS_Subset, SfsFileAssumption
<1> QED BY <1>2, FS_CardinalityType DEF Users, Count

LEMMA CountSame ==
  ASSUME \A f \in Fds : /\ fd'[f] = NoFile <=> fd[f] = NoFile
                        /\ fd[f] # NoFile => fd'[f].ino = fd[f].ino
  PROVE  \A i : Count(i)' = Count(i)
<1> TAKE i
<1>1. Users(i)' = Users(i)
  BY DEF Users
<1> QED BY <1>1 DEF Users, Count

LEMMA CountAdd ==
  ASSUME NEW f \in Fds, fd[f] = NoFile, fd'[f] # NoFile,
         \A g \in Fds \ {f} : fd'[g] = fd[g]
  PROVE  \A i : Count(i)' = IF i = fd'[f].ino THEN Count(i) + 1 ELSE Count(i)
<1> TAKE i
<1>1. Count(i)' = Cardinality(Users(i)')
  BY DEF Users, Count
<1>2. CASE i = fd'[f].ino
  <2>1. Users(i)' = Users(i) \union {f} /\ f \notin Users(i)
    BY <1>2 DEF Users
  <2>2. Cardinality(Users(i) \union {f}) = Cardinality(Users(i)) + 1
    BY <2>1, UsersFinite, FS_AddElement
  <2> QED BY <2>1, <2>2, <1>1, <1>2, UsersFinite
<1>3. CASE i # fd'[f].ino
  <2>1. Users(i)' = Users(i)
    BY <1>3 DEF Users
  <2> QED BY <2>1, <1>1, <1>3, UsersFinite
<1> QED BY <1>2, <1>3

LEMMA CountRemove ==
  ASSUME NEW f \in Fds, fd[f] # NoFile, fd'[f] = NoFile,
         \A g \in Fds \ {f} : fd'[g] = fd[g]
  PROVE  \A i : Count(i)' = IF i = fd[f].ino THEN Count(i) - 1 ELSE Count(i)
<1> TAKE i
<1>1. Count(i)' = Cardinality(Users(i)')
  BY DEF Users, Count
<1>2. CASE i = fd[f].ino
  <2>1. Users(i)' = Users(i) \ {f} /\ f \in Users(i)
    BY <1>2 DEF Users
  <2> QED BY <2>1, <1>1, <1>2, UsersFinite, FS_RemoveElement
<1>3. CASE i # fd[f].ino
  <2>1. Users(i)' = Users(i)
    BY <1>3 DEF Users
  <2> QED BY <2>1, <1>1, <1>3, UsersFinite
<1> QED BY <1>2, <1>3

LEMMA CountsInit == ASSUME Init PROVE CountsOK
<1> SUFFICES ASSUME NEW i \in Inodes PROVE ref[i] >= open[i] /\ open[i] = Count(i) + 0
  BY DEF CountsOK, Init, Idle
<1>1. Users(i) = {}
  BY DEF Users, Init
<1>2. Count(i) = 0
  BY <1>1, UsersFinite, FS_EmptySet
<1> QED BY <1>2 DEF Init

\* A step that leaves the counts and the users of every file alone.
LEMMA CountsFrame ==
  ASSUME CountsOK, UNCHANGED <<ref, open>>,
         \A f \in Fds : /\ fd'[f] = NoFile <=> fd[f] = NoFile
                        /\ fd[f] # NoFile => fd'[f].ino = fd[f].ino,
         \A i \in Inodes : Opening(i)' <=> Opening(i)
  PROVE  CountsOK'
<1>1. \A i : Count(i)' = Count(i)
  BY CountSame
<1> QED BY <1>1 DEF CountsOK, Opening

LEMMA CountsNext == ASSUME CallInv, CountsOK, [Next]_vars PROVE CountsOK'
<1>0. /\ ref \in [Inodes -> Nat] /\ open \in [Inodes -> Nat] /\ fd \in [Fds -> File]
      /\ op \in Op /\ CallOK
  BY DEF CallInv, TypeOK
<1>1. \A i \in Inodes : /\ ref[i] >= open[i] /\ Count(i) \in Nat
                        /\ open[i] = Count(i) + (IF Opening(i) THEN 1 ELSE 0)
  BY UsersFinite DEF CountsOK, Opening
<1>2. ASSUME \A i \in Inodes : /\ ref'[i] >= open'[i]
                               /\ open'[i] = Count(i)' + (IF Opening(i)' THEN 1 ELSE 0)
      PROVE  CountsOK'
  BY <1>2 DEF CountsOK, Opening
<1>3. ASSUME UNCHANGED <<ref, open, fd>>, \A i \in Inodes : Opening(i)' <=> Opening(i)
      PROVE  CountsOK'
  BY <1>3, CountsFrame
<1>4. ASSUME NEW why, Stop(why) PROVE CountsOK'
  BY <1>3, <1>4 DEF Stop, vfsVars, Opening
<1>5. ASSUME NEW f \in Fds, NEW i \in Inodes, NEW trunc \in BOOLEAN,
             NEW append \in BOOLEAN, Open(f, i, trunc, append)
      PROVE  CountsOK'
  <2>1. CASE ref[i] + 1 >= MAX_INODE_COUNT
    BY <2>1, <1>4, <1>5 DEF Open
  <2>2. CASE ~(ref[i] + 1 >= MAX_INODE_COUNT)
    <3>1. /\ ref' = [ref EXCEPT ![i] = @ + 1] /\ open' = [open EXCEPT ![i] = @ + 1]
          /\ fd[f] = NoFile /\ op = Idle
      BY <2>2, <1>5 DEF Open, LoadInode, Ready
    <3>2. \A j \in Inodes : ~Opening(j)
      BY <3>1 DEF Opening, Idle
    <3>3. CASE trunc /\ din'[i].size # 0
      <4>1. op' = TruncOp(f, i, 0, "open") /\ UNCHANGED fd
        BY <3>3, <2>2, <1>5 DEF Open
      <4>2. \A j \in Inodes : Opening(j)' <=> j = i
        BY <4>1 DEF Opening, TruncOp
      <4>3. \A j \in Inodes : Count(j)' = Count(j)
        BY <4>1, CountSame
      <4> QED BY <4>2, <4>3, <3>1, <3>2, <1>0, <1>1, <1>2
    <3>4. CASE ~(trunc /\ din'[i].size # 0)
      <4> DEFINE p == IF append THEN din'[i].size ELSE 0
      <4>1. /\ fd' = [fd EXCEPT ![f] = [used |-> TRUE, ino |-> i, pos |-> p]]
            /\ UNCHANGED op
        BY <3>4, <2>2, <1>5 DEF Open
      <4>2. fd'[f] = [used |-> TRUE, ino |-> i, pos |-> p]
            /\ \A g \in Fds \ {f} : fd'[g] = fd[g]
        BY <4>1, <1>0
      <4>3. fd'[f] # NoFile /\ fd'[f].ino = i
        <5>1. fd'[f].used = TRUE /\ NoFile.used = FALSE /\ fd'[f].ino = i
          BY <4>2 DEF NoFile
        <5> QED BY <5>1
      <4>4. \A j \in Inodes : Count(j)' = IF j = i THEN Count(j) + 1 ELSE Count(j)
        BY <4>2, <4>3, <3>1, CountAdd
      <4>5. \A j \in Inodes : ~Opening(j)'
        BY <4>1, <3>1 DEF Opening, Idle
      <4> QED BY <4>4, <4>5, <3>1, <3>2, <1>0, <1>1, <1>2
    <3> QED BY <3>3, <3>4
  <2> QED BY <2>1, <2>2
<1>6. ASSUME NEW i \in Inodes, OpenExcl(i) PROVE CountsOK'
  <2>1. ref' = [ref EXCEPT ![i] = @ + 1] /\ UNCHANGED <<open, fd, op>>
    BY <1>6 DEF OpenExcl, LoadInode
  <2>2. \A j \in Inodes : Count(j)' = Count(j)
    BY <2>1, CountSame
  <2>3. \A j \in Inodes : Opening(j)' <=> Opening(j)
    BY <2>1 DEF Opening
  <2> QED BY <2>1, <2>2, <2>3, <1>0, <1>1, <1>2
<1>7. ASSUME NEW f \in Fds, NEW g \in Fds, Dup(f, g) PROVE CountsOK'
  <2> DEFINE i == fd[f].ino
  <2>1. /\ ref' = [ref EXCEPT ![i] = @ + 1] /\ open' = [open EXCEPT ![i] = @ + 1]
        /\ fd' = [fd EXCEPT ![g] = fd[f]] /\ UNCHANGED op
        /\ fd[f] # NoFile /\ fd[g] = NoFile
    BY <1>7 DEF Dup
  <2>2. fd'[g] # NoFile /\ fd'[g].ino = i /\ \A h \in Fds \ {g} : fd'[h] = fd[h]
    BY <2>1, <1>0
  <2>3. \A j \in Inodes : Count(j)' = IF j = i THEN Count(j) + 1 ELSE Count(j)
    BY <2>1, <2>2, CountAdd
  <2>4. \A j \in Inodes : Opening(j)' <=> Opening(j)
    BY <2>1 DEF Opening
  <2> QED BY <2>1, <2>3, <2>4, <1>0, <1>1, <1>2
<1>8. ASSUME NEW f \in Fds, Close(f) PROVE CountsOK'
  <2> DEFINE i == fd[f].ino
  <2>1. CASE CheckFails(i) /\ open[i] = 1
    BY <2>1, <1>4, <1>8 DEF Close
  <2>2. CASE ~(CheckFails(i) /\ open[i] = 1)
    <3>1. /\ fd' = [fd EXCEPT ![f] = NoFile] /\ fd[f] # NoFile
          /\ open' = [open EXCEPT ![i] = @ - 1]
          /\ ref' = [ref EXCEPT ![i] = @ - 1] /\ UNCHANGED op
      BY <2>2, <1>8 DEF Close
    <3>2. fd'[f] = NoFile /\ \A h \in Fds \ {f} : fd'[h] = fd[h]
      BY <3>1, <1>0
    <3>3. \A j \in Inodes : Count(j)' = IF j = i THEN Count(j) - 1 ELSE Count(j)
      BY <3>1, <3>2, CountRemove
    <3>4. \A j \in Inodes : Opening(j)' <=> Opening(j)
      BY <3>1 DEF Opening
    <3> QED BY <3>1, <3>3, <3>4, <1>0, <1>1, <1>2
  <2> QED BY <2>1, <2>2
<1>9. ASSUME NEW f \in Fds, Fsync(f) PROVE CountsOK'
  BY <1>3, <1>4, <1>9 DEF Fsync, Opening
<1>10. ASSUME NEW f \in Fds, NEW pos \in Seeks, Seek(f, pos) PROVE CountsOK'
  <2> DEFINE i == fd[f].ino
  <2>1. CASE CheckFails(i)
    BY <2>1, <1>4, <1>10 DEF Seek
  <2>2. CASE ~CheckFails(i) /\ pos > din[i].size
    <3>1. /\ op' = TruncOp(f, i, pos, "seek") /\ op = Idle
          /\ UNCHANGED <<ref, open, fd>>
      BY <2>2, <1>10 DEF Seek, vfsVars, Ready
    <3> QED BY <3>1, <1>3 DEF Opening, TruncOp, Idle
  <2>3. CASE ~CheckFails(i) /\ ~(pos > din[i].size)
    <3>1. /\ fd' = [fd EXCEPT ![f].pos = pos] /\ fd[f] # NoFile
          /\ UNCHANGED <<ref, open, op>>
      BY <2>3, <1>10 DEF Seek, vfsVars
    <3>2. \A g \in Fds : /\ fd'[g] = NoFile <=> fd[g] = NoFile
                         /\ fd[g] # NoFile => fd'[g].ino = fd[g].ino
      <4>1. fd[f] \in File /\ fd[f] = [used |-> TRUE, ino |-> fd[f].ino, pos |-> fd[f].pos]
        BY <3>1, <1>0, FileCases
      <4>2. fd'[f] = [used |-> TRUE, ino |-> fd[f].ino, pos |-> pos]
        <5>1. fd'[f] = [fd[f] EXCEPT !.pos = pos]
          BY <3>1, <1>0
        <5> QED BY <5>1, <4>1, <3>1, MoveFile
      <4>3. fd'[f].used = TRUE /\ NoFile.used = FALSE /\ fd'[f].ino = fd[f].ino
        BY <4>2 DEF NoFile
      <4>4. fd'[f] # NoFile /\ \A g \in Fds \ {f} : fd'[g] = fd[g]
        BY <4>3, <3>1, <1>0
      <4> QED BY <4>3, <4>4, <3>1
    <3> QED BY <3>1, <3>2, CountsFrame DEF Opening
  <2> QED BY <2>1, <2>2, <2>3
<1>11. ASSUME NEW f \in Fds, NEW len \in Lens, NEW write \in BOOLEAN, StartIo(f, len, write)
       PROVE  CountsOK'
  <2> DEFINE i == fd[f].ino
  <2>1. CASE CheckFails(i)
    BY <2>1, <1>4, <1>11 DEF StartIo
  <2>2. CASE ~CheckFails(i)
    <3>1. op'.kind = "io" /\ op = Idle /\ UNCHANGED <<ref, open, fd>>
      BY <2>2, <1>11 DEF StartIo, vfsVars, Ready
    <3> QED BY <3>1, <1>3 DEF Opening, Idle
  <2> QED BY <2>1, <2>2
<1>12. ASSUME NEW n, NEW r, op.kind = "io", "kind" \in DOMAIN r, r.kind = "io",
              Transfer(n, r)
       PROVE  CountsOK'
  <2>1. CASE LoadPanic(op.ino, op.blkno) # "none"
    BY <2>1, <1>4, <1>12 DEF Transfer
  <2>2. CASE LoadPanic(op.ino, op.blkno) = "none"
    <3>1. UNCHANGED <<ref, open, fd>> /\ op'.kind = "io"
      <4>1. CASE LoadFails(op.ino, op.blkno)
        <5>1. op' = [op EXCEPT !.at = "out"] /\ UNCHANGED <<ref, open, fd>>
          BY <4>1, <2>2 , <1>12 DEF Transfer, vfsVars
        <5>2. op \in IoRec
          BY <1>0, <1>12, OpCases
        <5> QED BY <5>1, <5>2 DEF IoRec
      <4>2. CASE ~LoadFails(op.ino, op.blkno)
        <5>1. /\ op' = [r EXCEPT !.pos = @ + n, !.blkno = @ + 1]
              /\ UNCHANGED <<ref, open, fd>>
          BY <4>2, <2>2, <1>12 DEF Transfer, vfsVars
        <5> QED BY <5>1, <1>12
      <4> QED BY <4>1, <4>2
    <3> QED BY <3>1, <1>3, <1>12 DEF Opening
  <2> QED BY <2>1, <2>2
<1>13. ASSUME IoHead \/ IoBlock \/ IoTail PROVE CountsOK'
  <2>1. op \in IoRec /\ op.kind = "io"
    BY <1>0, <1>13, OpCases DEF IoHead, IoBlock, IoTail, Doing
  <2>2. /\ [op EXCEPT !.at = "body", !.nblks = IF @ # 0 THEN @ - 1 ELSE @].kind = "io"
        /\ [op EXCEPT !.nblks = @ - 1].kind = "io"
        /\ [op EXCEPT !.at = "out"].kind = "io"
    BY <2>1 DEF IoRec
  <2>3. /\ "kind" \in DOMAIN [op EXCEPT !.at = "body",
                                       !.nblks = IF @ # 0 THEN @ - 1 ELSE @]
        /\ "kind" \in DOMAIN [op EXCEPT !.nblks = @ - 1]
        /\ "kind" \in DOMAIN [op EXCEPT !.at = "out"]
    BY <2>1 DEF IoRec
  <2> QED BY <2>1, <2>2, <2>3, <1>12, <1>13 DEF IoHead, IoBlock, IoTail
<1>14. ASSUME IoOut PROVE CountsOK'
  <2> DEFINE g == op.fd
  <2>1. op \in IoRec /\ op.kind = "io" /\ g \in Fds /\ fd[g] # NoFile
    BY <1>0, <1>14, OpCases DEF IoOut, Doing, IoRec, CallOK, IsOpen
  <2>2. /\ fd' = [fd EXCEPT ![g].pos = @ + (op.pos - op.offset)]
        /\ op' = Idle /\ UNCHANGED <<ref, open>>
    BY <1>14 DEF IoOut
  <2>3. fd[g] = [used |-> TRUE, ino |-> fd[g].ino, pos |-> fd[g].pos]
    BY <2>1, <1>0, FileCases
  <2>4. fd'[g] = [used |-> TRUE, ino |-> fd[g].ino,
                  pos |-> fd[g].pos + (op.pos - op.offset)]
    <3>1. fd'[g] = [fd[g] EXCEPT !.pos = fd[g].pos + (op.pos - op.offset)]
      BY <2>1, <2>2, <1>0
    <3> QED BY <3>1, <2>1, <1>0, MoveFile
  <2>5. fd'[g].used = TRUE /\ NoFile.used = FALSE /\ fd'[g].ino = fd[g].ino
    BY <2>4 DEF NoFile
  <2>6. fd'[g] # NoFile /\ \A h \in Fds \ {g} : fd'[h] = fd[h]
    BY <2>2, <2>5, <1>0
  <2>7. \A h \in Fds : /\ fd'[h] = NoFile <=> fd[h] = NoFile
                       /\ fd[h] # NoFile => fd'[h].ino = fd[h].ino
    BY <2>1, <2>5, <2>6
  <2> QED BY <2>1, <2>2, <2>7, CountsFrame DEF Opening, Idle
<1>15. ASSUME TruncGrow \/ TruncShrink \/ TruncDone PROVE CountsOK'
  <2> DEFINE g == op.fd
             i == op.ino
  <2>1. /\ op \in TruncRec /\ op.kind = "trunc" /\ g \in Fds /\ i \in Inodes
        /\ op.len \in Nat /\ op.caller \in {"open", "seek"}
    BY <1>0, <1>15, OpCases DEF TruncGrow, TruncShrink, TruncDone, Doing, TruncRec
  <2>2. CASE TruncGrow
    <3> DEFINE x == din[i].blocks
    <3>1. CASE LoadPanic(i, x) # "none"
      BY <3>1, <2>2, <1>4 DEF TruncGrow
    <3>2. CASE LoadPanic(i, x) = "none" /\ LoadFails(i, x)
      <4>1. op' = Idle /\ UNCHANGED <<ref, open, fd>>
        BY <3>2, <2>2 DEF TruncGrow, TruncReturn, vfsVars
      <4>2. op.caller = "seek"
        <5>1. ASSUME op.caller = "open" PROVE FALSE
          <6>1. op.len = 0 /\ x \in Nat
            BY <5>1, <2>1, <1>0 DEF CallOK, CallInv, TypeOK, DiskInode
          <6>2. RoundUpDiv(op.len, SFS_BLKSIZE) = 0
            BY <6>1, <2>1, RoundUp
          <6> QED BY <6>1, <6>2, <2>2 DEF TruncGrow
        <5> QED BY <5>1, <2>1
      <4> QED BY <4>1, <4>2, <1>3 DEF Opening, Idle
    <3>3. CASE LoadPanic(i, x) = "none" /\ ~LoadFails(i, x)
      BY <3>3, <2>2, <1>3 DEF TruncGrow, vfsVars, Opening
    <3> QED BY <3>1, <3>2, <3>3
  <2>3. CASE TruncShrink
    <3>1. CASE Mapped(i, din[i].blocks - 1) \in free
      BY <3>1, <2>3, <1>4 DEF TruncShrink
    <3>2. CASE Mapped(i, din[i].blocks - 1) \notin free
      BY <3>2, <2>3, <1>3 DEF TruncShrink, vfsVars, Opening
    <3> QED BY <3>1, <3>2
  <2>4. CASE TruncDone
    <3>1. /\ op' = Idle /\ UNCHANGED <<ref, open>>
          /\ fd' = [fd EXCEPT ![g] = [used |-> TRUE, ino |-> i, pos |-> op.len]]
      BY <2>4 DEF TruncDone, TruncReturn
    <3>2. fd'[g] = [used |-> TRUE, ino |-> i, pos |-> op.len]
          /\ \A h \in Fds \ {g} : fd'[h] = fd[h]
      BY <3>1, <2>1, <1>0
    <3>3. fd'[g] # NoFile /\ fd'[g].ino = i
      BY <3>2, <2>1, UsedFile
    <3>4. \A j \in Inodes : ~Opening(j)'
      BY <3>1 DEF Opening, Idle
    <3>5. CASE op.caller = "open"
      <4>1. fd[g] = NoFile
        BY <3>5, <2>1, <1>0 DEF CallOK
      <4>2. \A j \in Inodes : Count(j)' = IF j = i THEN Count(j) + 1 ELSE Count(j)
        BY <4>1, <3>2, <3>3, <2>1, CountAdd
      <4>3. \A j \in Inodes : Opening(j) <=> j = i
        BY <3>5, <2>1 DEF Opening
      <4> QED BY <4>2, <4>3, <3>1, <3>4, <1>0, <1>1, <1>2
    <3>6. CASE op.caller = "seek"
      <4>1. fd[g] # NoFile /\ fd[g].ino = i
        BY <3>6, <2>1, <1>0 DEF CallOK, IsOpen
      <4>2. \A h \in Fds : /\ fd'[h] = NoFile <=> fd[h] = NoFile
                           /\ fd[h] # NoFile => fd'[h].ino = fd[h].ino
        BY <4>1, <3>2, <3>3
      <4>3. \A j \in Inodes : ~Opening(j)
        BY <3>6 DEF Opening
      <4> QED BY <4>2, <4>3, <3>1, <3>4, CountsFrame
    <3> QED BY <3>5, <3>6, <2>1
  <2> QED BY <2>2, <2>3, <2>4, <1>15
<1>16. ASSUME UNCHANGED vars PROVE CountsOK'
  BY <1>3, <1>16 DEF vars, Opening
<1> QED BY <1>5, <1>6, <1>7, <1>8, <1>9, <1>10, <1>11, <1>13, <1>14, <1>15, <1>16 DEF Next

----------------------------------------------------------------------------
(* Names of blocks *)

LEMMA PlacesAre ==
  /\ \A j \in Inodes, k \in Directs : <<j, "direct", k>> \in Places
  /\ \A j \in Inodes : <<j, "indirect", 0>> \in Places
  /\ \A j \in Inodes, k \in Entries : <<j, "entry", k>> \in Places
  /\ \A p \in Places :
        \/ \E j \in Inodes, k \in Directs : p = <<j, "direct", k>>
        \/ \E j \in Inodes : p = <<j, "indirect", 0>>
        \/ \E j \in Inodes, k \in Entries : p = <<j, "entry", k>>
BY DEF Places

LEMMA BlockAtIs ==
  /\ \A j, k : BlockAt(<<j, "direct", k>>) = Inode(j).direct[k]
  /\ \A j : BlockAt(<<j, "indirect", 0>>) = Inode(j).indirect
  /\ \A j, k : BlockAt(<<j, "entry", k>>) = entries[j][k]
BY DEF BlockAt

LEMMA BlockAtNext ==
  /\ \A j, k : BlockAt(<<j, "direct", k>>)' = Inode(j)'.direct[k]
  /\ \A j : BlockAt(<<j, "indirect", 0>>)' = Inode(j)'.indirect
  /\ \A j, k : BlockAt(<<j, "entry", k>>)' = entries'[j][k]
BY DEF BlockAt

LEMMA NamesSame ==
  ASSUME NamesOK, free' = free, \A p \in Places : BlockAt(p)' = BlockAt(p)
  PROVE  NamesOK'
BY DEF NamesOK

LEMMA NamesAdd ==
  ASSUME NamesOK, free \subseteq Blocks, NEW p \in Places, BlockAt(p) = 0,
         NEW b \in free, free' = free \ {b}, BlockAt(p)' = b,
         \A q \in Places \ {p} : BlockAt(q)' = BlockAt(q)
  PROVE  NamesOK'
<1>1. 0 \notin free
  BY DEF Blocks
<1>2. \A q \in Places : BlockAt(q)' = IF q = p THEN b ELSE BlockAt(q)
  OBVIOUS
<1>3. \A q \in Places : BlockAt(q)' \notin free'
  BY <1>2 DEF NamesOK
<1>4. \A q, r \in Places : BlockAt(q)' = BlockAt(r)' /\ BlockAt(q)' # 0 => q = r
  BY <1>2 DEF NamesOK
<1>5. \A c \in Blocks \ free' : \E q \in Places : BlockAt(q)' = c
  <2> TAKE c \in Blocks \ free'
  <2>1. CASE c = b
    BY <2>1
  <2>2. CASE c # b
    <3>1. PICK q \in Places : BlockAt(q) = c
      BY <2>2 DEF NamesOK
    <3>2. q # p
      BY <3>1 DEF Blocks
    <3> QED BY <3>1, <3>2
  <2> QED BY <2>1, <2>2
<1> QED BY <1>3, <1>4, <1>5 DEF NamesOK

LEMMA NamesAddTwo ==
  ASSUME NamesOK, free \subseteq Blocks,
         NEW p \in Places, NEW q \in Places, p # q, BlockAt(p) = 0, BlockAt(q) = 0,
         NEW b \in free, NEW c \in free, b # c, free' = free \ {b, c},
         BlockAt(p)' = b, BlockAt(q)' = c,
         \A r \in Places \ {p, q} : BlockAt(r)' = BlockAt(r)
  PROVE  NamesOK'
<1>1. 0 \notin free
  BY DEF Blocks
<1>2. \A r \in Places : BlockAt(r)' = IF r = p THEN b ELSE IF r = q THEN c ELSE BlockAt(r)
  OBVIOUS
<1>3. \A r \in Places : BlockAt(r)' \notin free'
  BY <1>2 DEF NamesOK
<1>4. \A r, t \in Places : BlockAt(r)' = BlockAt(t)' /\ BlockAt(r)' # 0 => r = t
  BY <1>2 DEF NamesOK
<1>5. \A d \in Blocks \ free' : \E r \in Places : BlockAt(r)' = d
  <2> TAKE d \in Blocks \ free'
  <2>1. CASE d = b \/ d = c
    BY <2>1
  <2>2. CASE d # b /\ d # c
    <3>1. PICK r \in Places : BlockAt(r) = d
      BY <2>2 DEF NamesOK
    <3>2. r # p /\ r # q
      BY <3>1 DEF Blocks
    <3> QED BY <3>1, <3>2
  <2> QED BY <2>1, <2>2
<1> QED BY <1>3, <1>4, <1>5 DEF NamesOK

LEMMA NamesDrop ==
  ASSUME NamesOK, NEW p \in Places, NEW b, b = BlockAt(p), BlockAt(p)' = 0,
         free \subseteq Blocks,
         free' = IF b = 0 THEN free ELSE free \union {b},
         \A q \in Places \ {p} : BlockAt(q)' = BlockAt(q)
  PROVE  NamesOK'
<1>1. \A q \in Places : BlockAt(q)' = IF q = p THEN 0 ELSE BlockAt(q)
  OBVIOUS
<1>2. 0 \notin free
  BY DEF Blocks
<1>3. \A q \in Places : BlockAt(q)' \notin free'
  BY <1>1, <1>2 DEF NamesOK
<1>4. \A q, r \in Places : BlockAt(q)' = BlockAt(r)' /\ BlockAt(q)' # 0 => q = r
  BY <1>1 DEF NamesOK
<1>5. \A c \in Blocks \ free' : \E q \in Places : BlockAt(q)' = c
  <2> TAKE c \in Blocks \ free'
  <2>1. PICK q \in Places : BlockAt(q) = c
    BY DEF NamesOK
  <2>2. q # p
    BY <2>1 DEF Blocks
  <2> QED BY <2>1, <2>2
<1> QED BY <1>3, <1>4, <1>5 DEF NamesOK

\* A call in progress works on an inode in memory.
LEMMA BusyInode ==
  ASSUME CallInv, CountsOK, op.kind # "idle"
  PROVE  op.ino \in Inodes /\ ref[op.ino] \in Nat /\ ref[op.ino] > 0
<1>1. op \in Op /\ CallOK /\ ref \in [Inodes -> Nat] /\ open \in [Inodes -> Nat]
  BY DEF CallInv, TypeOK
<1>2. CASE op.kind = "io"
  <2>1. op.fd \in Fds /\ IsOpen(op.fd) /\ fd[op.fd].ino = op.ino
    BY <1>1, <1>2, OpCases DEF IoRec, CallOK
  <2> QED BY <2>1, OpenCounted
<1>3. CASE op.kind = "trunc"
  <2>1. op.fd \in Fds /\ op.ino \in Inodes /\ op.caller \in {"open", "seek"}
    BY <1>1, <1>3, OpCases DEF TruncRec
  <2>2. CASE op.caller = "seek"
    BY <2>1, <2>2, <1>1, <1>3, OpenCounted DEF CallOK
  <2>3. CASE op.caller = "open"
    <3>1. Count(op.ino) \in Nat
      BY UsersFinite
    <3>2. open[op.ino] = Count(op.ino) + 1 /\ ref[op.ino] >= open[op.ino]
      BY <2>1, <2>3, <1>3 DEF CountsOK
    <3> QED BY <3>1, <3>2, <2>1, <1>1
  <2> QED BY <2>1, <2>2, <2>3
<1> QED BY <1>1, <1>2, <1>3, OpCases

\* Steps that leave the blocks of every file where they are.
LEMMA NameKeep ==
  ASSUME NameInv, free' = free, entries' = entries,
         panic' \notin {"inuse", "unused"},
         \A j \in Inodes : /\ Inode(j)'.direct = Inode(j).direct
                           /\ Inode(j)'.indirect = Inode(j).indirect,
         MappedOK', NothingLost'
  PROVE  NameInv'
<1>1. \A p \in Places : BlockAt(p)' = BlockAt(p)
  <2> TAKE p \in Places
  <2>1. ASSUME NEW j \in Inodes, NEW k \in Directs, p = <<j, "direct", k>>
        PROVE  BlockAt(p)' = BlockAt(p)
    BY <2>1, BlockAtIs, BlockAtNext
  <2>2. ASSUME NEW j \in Inodes, p = <<j, "indirect", 0>>
        PROVE  BlockAt(p)' = BlockAt(p)
    BY <2>2, BlockAtIs, BlockAtNext
  <2>3. ASSUME NEW j \in Inodes, NEW k \in Entries, p = <<j, "entry", k>>
        PROVE  BlockAt(p)' = BlockAt(p)
    BY <2>3, BlockAtIs, BlockAtNext
  <2> QED BY <2>1, <2>2, <2>3, PlacesAre
<1>2. NamesOK'
  BY <1>1, NamesSame DEF NameInv
<1>3. IndirectOK'
  BY DEF NameInv, IndirectOK
<1> QED BY <1>2, <1>3 DEF NameInv

\* Steps that change descriptors and calls only.
LEMMA NameFrame ==
  ASSUME NameInv, UNCHANGED <<din, dirty, ddin, entries, free>>,
         panic' \notin {"inuse", "unused"},
         \A j \in Inodes : ref'[j] > 0 <=> ref[j] > 0
  PROVE  NameInv'
<1>1. \A j \in Inodes : Inode(j)' = Inode(j)
  BY DEF Inode
<1>2. MappedOK'
  BY <1>1 DEF NameInv, MappedOK, Backed
<1>3. NothingLost'
  BY DEF NameInv, NothingLost
<1> QED BY <1>1, <1>2, <1>3, NameKeep

LEMMA NameInit == ASSUME Init PROVE NameInv
<1>1. \A j \in Inodes : Inode(j) = Empty
  BY DEF Init, Inode
<1>2. \A p \in Places : BlockAt(p) = 0
  <2> TAKE p \in Places
  <2>1. ASSUME NEW j \in Inodes, NEW k \in Directs, p = <<j, "direct", k>>
        PROVE  BlockAt(p) = 0
    BY <2>1, <1>1, BlockAtIs DEF Empty
  <2>2. ASSUME NEW j \in Inodes, p = <<j, "indirect", 0>> PROVE BlockAt(p) = 0
    BY <2>2, <1>1, BlockAtIs DEF Empty
  <2>3. ASSUME NEW j \in Inodes, NEW k \in Entries, p = <<j, "entry", k>>
        PROVE  BlockAt(p) = 0
    BY <2>3, BlockAtIs DEF Init, NoEntries
  <2> QED BY <2>1, <2>2, <2>3, PlacesAre
<1>3. NamesOK
  BY <1>2 DEF NamesOK, Init, Blocks
<1>4. IndirectOK
  BY DEF IndirectOK, Init
<1>5. Backed(Empty, NoEntries)
  BY DEF Backed, Empty
<1>6. MappedOK
  BY <1>1, <1>5 DEF MappedOK, Init
<1>7. NothingLost /\ panic \notin {"inuse", "unused"}
  BY DEF NothingLost, Init
<1> QED BY <1>3, <1>4, <1>6, <1>7 DEF NameInv

\* vop_ref or a read from the disk.
LEMMA NameLoadInode ==
  ASSUME CallInv, NameInv, NEW i \in Inodes, LoadInode(i),
         UNCHANGED <<ddin, entries, free, unused>>, panic' \notin {"inuse", "unused"}
  PROVE  NameInv'
<1>1. /\ ref \in [Inodes -> Nat]
      /\ \A j \in Inodes : ref'[j] = IF j = i THEN ref[j] + 1 ELSE ref[j]
      /\ \A j \in Inodes : din'[j] = IF j = i /\ ref[i] = 0 THEN ddin[j] ELSE din[j]
      /\ \A j \in Inodes : dirty'[j] = IF j = i /\ ref[i] = 0 THEN FALSE ELSE dirty[j]
  BY CallParts, LoadInodeTypes DEF UserPart
<1>2. \A j \in Inodes : Inode(j)' = Inode(j)
  BY <1>1 DEF Inode
<1>3. MappedOK'
  <2>1. \A j \in Inodes : Backed(Inode(j)', entries[j])
    BY <1>2 DEF NameInv, MappedOK
  <2>2. \A j \in Inodes : ref'[j] > 0 /\ ~dirty'[j] => Backed(ddin[j], entries[j])
    <3> SUFFICES ASSUME NEW j \in Inodes, ref'[j] > 0, ~dirty'[j]
                 PROVE  Backed(ddin[j], entries[j])
      OBVIOUS
    <3>1. CASE ref[j] = 0
      <4>1. Inode(j) = ddin[j]
        BY <3>1 DEF Inode
      <4>2. Backed(Inode(j), entries[j])
        BY DEF NameInv, MappedOK
      <4> QED BY <4>1, <4>2
    <3>2. CASE ref[j] > 0
      <4>1. ~(j = i /\ ref[i] = 0)
        BY <3>2
      <4>2. ~dirty[j]
        BY <4>1, <1>1, Zenon
      <4> QED BY <4>2, <3>2 DEF NameInv, MappedOK
    <3> QED BY <3>1, <3>2, <1>1
  <2> QED BY <2>1, <2>2 DEF MappedOK, Backed
<1>4. NothingLost'
  <2> SUFFICES ASSUME NEW j \in Inodes, ref'[j] > 0, ~dirty'[j]
               PROVE  /\ din'[j].size = ddin[j].size
                      /\ din'[j].direct = ddin[j].direct
                      /\ din'[j].indirect = ddin[j].indirect
    BY DEF NothingLost
  <2>1. CASE ref[j] = 0
    BY <2>1, <1>1
  <2>2. CASE ref[j] > 0
    BY <2>2, <1>1 DEF NameInv, NothingLost
  <2> QED BY <2>1, <2>2, <1>1
<1> QED BY <1>2, <1>3, <1>4, NameKeep

\* sfs_fsync, and the close that may take the inode out of memory.
LEMMA NameSync ==
  ASSUME CallInv, NameInv, NEW i \in Inodes, ref[i] > 0,
         Sync(i) \/ (UNCHANGED <<ddin, dirty>> /\ ref'[i] > 0),
         UNCHANGED <<entries, free>>, panic' \notin {"inuse", "unused"},
         ref' \in [Inodes -> Nat],
         \A j \in Inodes \ {i} : ref'[j] = ref[j] /\ din'[j] = din[j],
         ref'[i] > 0 => din'[i] = din[i]
  PROVE  NameInv'
<1>1. /\ dirty \in [Inodes -> BOOLEAN] /\ ddin \in [Inodes -> DiskInode]
      /\ ref \in [Inodes -> Nat]
  BY DEF CallInv, TypeOK
<1>2. /\ \A j \in Inodes \ {i} : ddin'[j] = ddin[j] /\ dirty'[j] = dirty[j]
      /\ \/ ddin'[i] = ddin[i] /\ dirty'[i] = dirty[i] /\ ref'[i] > 0
         \/ ddin'[i] = din[i] /\ dirty[i]
         \/ ddin'[i] = ddin[i] /\ ~dirty[i]
  BY <1>1 DEF Sync
<1>3. ~dirty[i] => /\ din[i].size = ddin[i].size /\ din[i].direct = ddin[i].direct
                   /\ din[i].indirect = ddin[i].indirect /\ Backed(ddin[i], entries[i])
  BY DEF NameInv, NothingLost, MappedOK
<1>4. Backed(din[i], entries[i]) /\ Inode(i) = din[i]
  BY DEF NameInv, MappedOK, Inode
<1>5. \A j \in Inodes \ {i} : Inode(j)' = Inode(j)
  BY <1>2 DEF Inode
<1>6. Inode(i)'.direct = Inode(i).direct /\ Inode(i)'.indirect = Inode(i).indirect
  BY <1>2, <1>3, <1>4 DEF Inode
<1>7. MappedOK'
  <2>1. Backed(Inode(i)', entries[i])
    BY <1>2, <1>3, <1>4 DEF Inode
  <2>2. ref'[i] > 0 /\ ~dirty'[i] => Backed(ddin'[i], entries[i])
    BY <1>2, <1>3, <1>4
  <2>3. \A j \in Inodes : /\ Backed(Inode(j)', entries[j])
                          /\ ref'[j] > 0 /\ ~dirty'[j] => Backed(ddin'[j], entries[j])
    <3> TAKE j \in Inodes
    <3>1. CASE j = i
      BY <3>1, <2>1, <2>2
    <3>2. CASE j # i
      BY <3>2, <1>2, <1>5 DEF NameInv, MappedOK
    <3> QED BY <3>1, <3>2
  <2> QED BY <2>3 DEF MappedOK, Backed
<1>8. NothingLost'
  <2> SUFFICES ASSUME NEW j \in Inodes, ref'[j] > 0, ~dirty'[j]
               PROVE  /\ din'[j].size = ddin'[j].size
                      /\ din'[j].direct = ddin'[j].direct
                      /\ din'[j].indirect = ddin'[j].indirect
    BY DEF NothingLost
  <2>1. CASE j = i
    BY <2>1, <1>2, <1>3
  <2>2. CASE j # i
    BY <2>2, <1>2 DEF NameInv, NothingLost
  <2> QED BY <2>1, <2>2
<1> QED BY <1>5, <1>6, <1>7, <1>8, NameKeep

\* A new size of an inode in memory, which becomes dirty.
LEMMA NameResize ==
  ASSUME CallInv, NameInv, NEW i \in Inodes, NEW n, ref[i] > 0,
         din' = [din EXCEPT ![i].size = n], dirty' = [dirty EXCEPT ![i] = TRUE],
         UNCHANGED <<ddin, entries, free, ref, panic>>
  PROVE  NameInv'
<1>1. /\ dirty \in [Inodes -> BOOLEAN] /\ din \in [Inodes -> DiskInode]
  BY DEF CallInv, TypeOK
<1>2. /\ din'[i].direct = din[i].direct /\ din'[i].indirect = din[i].indirect
      /\ din'[i].blocks = din[i].blocks /\ dirty'[i]
      /\ \A j \in Inodes \ {i} : din'[j] = din[j] /\ dirty'[j] = dirty[j]
  BY <1>1 DEF DiskInode
<1>3. /\ Inode(i)' = din'[i] /\ Inode(i) = din[i]
      /\ \A j \in Inodes \ {i} : Inode(j)' = Inode(j)
  BY <1>2 DEF Inode
<1>4. \A j \in Inodes : /\ Inode(j)'.direct = Inode(j).direct
                        /\ Inode(j)'.indirect = Inode(j).indirect
                        /\ Inode(j)'.blocks = Inode(j).blocks
  BY <1>2, <1>3
<1>5. MappedOK'
  <2>1. \A j \in Inodes : Backed(Inode(j)', entries[j])
    BY <1>4 DEF NameInv, MappedOK, Backed
  <2>2. \A j \in Inodes : ref[j] > 0 /\ ~dirty'[j] => Backed(ddin[j], entries[j])
    BY <1>2 DEF NameInv, MappedOK
  <2> QED BY <2>1, <2>2 DEF MappedOK, Backed
<1>6. NothingLost'
  BY <1>2 DEF NameInv, NothingLost
<1>7. panic' \notin {"inuse", "unused"}
  BY DEF NameInv
<1> QED BY <1>4, <1>5, <1>6, <1>7, NameKeep

\* Loading a block names at most one new place, and its indirect block.
LEMMA NameLoad ==
  ASSUME CallInv, NameInv, NEW i \in Inodes, NEW x \in Nat, ref[i] > 0,
         LoadPanic(i, x) = "none", ~LoadFails(i, x), LoadBlock(i, x),
         UNCHANGED <<ddin, ref, panic>>
  PROVE  NameInv'
<1> DEFINE y == x - SFS_NDIRECT
<1>1. /\ x <= din[i].blocks /\ x < MaxBlocks
      /\ FileTypes /\ OnlyFile(i) /\ Loaded(i, x)
      /\ din'[i].blocks = IF x = din[i].blocks THEN x + 1 ELSE din[i].blocks
  BY LoadEffect DEF CallInv
<1>2. /\ din[i].direct \in [Directs -> BlkNo] /\ entries[i] \in [Entries -> BlkNo]
      /\ din[i].blocks \in Nat /\ free \subseteq Blocks
      /\ ddin[i].blocks \in Nat /\ ddin[i].blocks <= MaxBlocks
      /\ din[i].blocks <= MaxBlocks
  BY DEF CallInv, TypeOK, DiskInode, BoundOK
<1>3. /\ SFS_NDIRECT \in Nat /\ SFS_BLK_NENTRY \in Nat
      /\ MaxBlocks = SFS_NDIRECT + SFS_BLK_NENTRY
      /\ \A k \in Nat : k < SFS_NDIRECT => k \in Directs
      /\ \A k \in Nat : k >= SFS_NDIRECT /\ k < MaxBlocks => k - SFS_NDIRECT \in Entries
      /\ 0 \notin free
  BY <1>2, SfsFileAssumption DEF MaxBlocks, Directs, Entries, Blocks
<1>4. /\ Inode(i)' = din'[i] /\ Inode(i) = din[i]
      /\ \A j \in Inodes \ {i} : Inode(j)' = Inode(j) /\ entries'[j] = entries[j]
  BY <1>1 DEF Inode, OnlyFile
<1>5. ASSUME NEW p \in Places,
             \A k \in Directs : p = <<i, "direct", k>> =>
                                  din'[i].direct[k] = din[i].direct[k],
             p = <<i, "indirect", 0>> => din'[i].indirect = din[i].indirect,
             \A k \in Entries : p = <<i, "entry", k>> => entries'[i][k] = entries[i][k]
      PROVE  BlockAt(p)' = BlockAt(p)
  <2>1. ASSUME NEW j \in Inodes, NEW k \in Directs, p = <<j, "direct", k>>
        PROVE  BlockAt(p)' = BlockAt(p)
    BY <2>1, <1>4, <1>5, BlockAtIs, BlockAtNext
  <2>2. ASSUME NEW j \in Inodes, p = <<j, "indirect", 0>>
        PROVE  BlockAt(p)' = BlockAt(p)
    BY <2>2, <1>4, <1>5, BlockAtIs, BlockAtNext
  <2>3. ASSUME NEW j \in Inodes, NEW k \in Entries, p = <<j, "entry", k>>
        PROVE  BlockAt(p)' = BlockAt(p)
    BY <2>3, <1>4, <1>5, BlockAtIs, BlockAtNext
  <2> QED BY <2>1, <2>2, <2>3, PlacesAre
<1>6. NamesOK /\ IndirectOK
  BY DEF NameInv
<1>7. CASE OldBlock(i, x)
  <2>1. \A p \in Places : BlockAt(p)' = BlockAt(p)
    BY <1>5, <1>7 DEF OldBlock
  <2>2. NamesOK'
    BY <2>1, <1>6, <1>7, NamesSame DEF OldBlock
  <2>3. IndirectOK'
    BY <1>4, <1>6, <1>7 DEF IndirectOK, OldBlock
  <2>4. Backed(din'[i], entries'[i])
    <3>1. Backed(din[i], entries[i])
      BY <1>4 DEF NameInv, MappedOK
    <3>2. x < din[i].blocks \/ Mapped(i, x) # 0
      BY <1>7 DEF OldBlock
    <3> QED BY <3>1, <3>2, <1>1, <1>2, <1>7 DEF Backed, OldBlock, Mapped
  <2>5. MappedOK'
    <3>1. \A j \in Inodes : Backed(Inode(j)', entries'[j])
      BY <2>4, <1>4 DEF NameInv, MappedOK
    <3>2. \A j \in Inodes : ref[j] > 0 /\ ~dirty'[j] => Backed(ddin[j], entries'[j])
      BY <1>1, <1>7 DEF NameInv, MappedOK, OldBlock, OnlyFile
    <3> QED BY <3>1, <3>2 DEF MappedOK, Backed
  <2>6. NothingLost'
    BY <1>1, <1>7 DEF NameInv, NothingLost, OldBlock, OnlyFile
  <2> QED BY <2>2, <2>3, <2>5, <2>6 DEF NameInv
<1>8. ASSUME NEW b \in free, x >= din[i].blocks, NewDirect(i, x, b) PROVE NameInv'
  <2> DEFINE p == <<i, "direct", x>>
  <2>1. /\ x \in Directs /\ din[i].direct[x] = 0 /\ b # 0
        /\ din'[i].direct = [din[i].direct EXCEPT ![x] = b]
        /\ din'[i].indirect = din[i].indirect /\ entries'[i] = entries[i]
        /\ free' = free \ {b} /\ dirty'[i]
    BY <1>3, <1>8 DEF NewDirect
  <2>2. p \in Places /\ BlockAt(p) = 0 /\ BlockAt(p)' = b
    BY <2>1, <1>2, <1>4, PlacesAre, BlockAtIs, BlockAtNext
  <2>3. \A q \in Places \ {p} : BlockAt(q)' = BlockAt(q)
    BY <2>1, <1>2, <1>5
  <2>4. NamesOK'
    <3> HIDE DEF p
    <3> QED BY <2>1, <2>2, <2>3, <1>2, <1>6, NamesAdd
  <2>5. IndirectOK'
    BY <2>1, <1>4, <1>6 DEF IndirectOK
  <2>6. Backed(din'[i], entries'[i])
    <3>1. Backed(din[i], entries[i])
      BY <1>4 DEF NameInv, MappedOK
    <3> QED BY <3>1, <2>1, <1>1, <1>2, <1>3, <1>8 DEF Backed, NewDirect
  <2>7. MappedOK'
    <3>1. \A j \in Inodes : Backed(Inode(j)', entries'[j])
      BY <2>6, <1>4 DEF NameInv, MappedOK
    <3>2. \A j \in Inodes : ref[j] > 0 /\ ~dirty'[j] => Backed(ddin[j], entries'[j])
      BY <2>1, <1>1 DEF NameInv, MappedOK, OnlyFile
    <3> QED BY <3>1, <3>2 DEF MappedOK, Backed
  <2>8. NothingLost'
    BY <2>1, <1>1 DEF NameInv, NothingLost, OnlyFile
  <2> QED BY <2>4, <2>5, <2>7, <2>8 DEF NameInv
<1>9. ASSUME NEW b, b # 0, x >= din[i].blocks, x >= SFS_NDIRECT,
             entries[i][y] = 0, din'[i].direct = din[i].direct,
             entries'[i] = [entries[i] EXCEPT ![y] = b]
      PROVE  /\ Backed(din'[i], entries'[i])
             /\ Backed(ddin[i], entries[i]) => Backed(ddin[i], entries'[i])
  <2>1. y \in Entries
    BY <1>1, <1>3, <1>9
  <2>2. /\ entries'[i][y] = b
        /\ \A k \in Entries \ {y} : entries'[i][k] = entries[i][k]
    BY <2>1, <1>2, <1>9
  <2>3. Backed(din[i], entries[i])
    BY <1>4 DEF NameInv, MappedOK
  <2>4. Backed(din'[i], entries'[i])
    <3> SUFFICES ASSUME NEW k \in 0 .. din'[i].blocks - 1
                 PROVE  (IF k < SFS_NDIRECT THEN din[i].direct[k]
                         ELSE entries'[i][k - SFS_NDIRECT]) # 0
      BY <1>9 DEF Backed
    <3>1. CASE k = x
      BY <3>1, <2>2, <1>9, <1>3
    <3>2. CASE k # x
      <4>1. k \in 0 .. din[i].blocks - 1 /\ k - SFS_NDIRECT # y /\ k < MaxBlocks /\ k \in Nat
        BY <3>2, <1>1, <1>2, <1>3
      <4>2. CASE k < SFS_NDIRECT
        BY <4>1, <4>2, <2>3 DEF Backed
      <4>3. CASE k >= SFS_NDIRECT
        BY <4>1, <4>3, <2>2, <2>3, <1>3 DEF Backed
      <4> QED BY <4>1, <4>2, <4>3, <1>3
    <3> QED BY <3>1, <3>2
  <2>5. ASSUME Backed(ddin[i], entries[i]) PROVE Backed(ddin[i], entries'[i])
    <3> SUFFICES ASSUME NEW k \in 0 .. ddin[i].blocks - 1
                 PROVE  (IF k < SFS_NDIRECT THEN ddin[i].direct[k]
                         ELSE entries'[i][k - SFS_NDIRECT]) # 0
      BY DEF Backed
    <3>1. k \in Nat /\ k < MaxBlocks
      BY <1>2, <1>3
    <3>2. CASE k < SFS_NDIRECT
      BY <3>2, <2>5 DEF Backed
    <3>3. CASE k >= SFS_NDIRECT
      <4>1. k - SFS_NDIRECT \in Entries
        BY <3>1, <3>3, <1>3
      <4>2. entries[i][k - SFS_NDIRECT] # 0
        BY <3>1, <3>3, <2>5, <1>3 DEF Backed
      <4> QED BY <4>1, <4>2, <3>1, <3>3, <2>2, <1>3, <1>9
    <3> QED BY <3>1, <3>2, <3>3, <1>3
  <2> QED BY <2>4, <2>5
<1>10. ASSUME NEW b \in free, x >= din[i].blocks, NewEntry(i, x, b) PROVE NameInv'
  <2> DEFINE p == <<i, "entry", y>>
  <2>1. /\ y \in Entries /\ entries[i][y] = 0 /\ b # 0 /\ x >= SFS_NDIRECT
        /\ din'[i].direct = din[i].direct /\ din'[i].indirect = din[i].indirect
        /\ din[i].indirect # 0 /\ entries'[i] = [entries[i] EXCEPT ![y] = b]
        /\ free' = free \ {b} /\ dirty'[i] = dirty[i]
    BY <1>1, <1>3, <1>10 DEF NewEntry
  <2>2. p \in Places /\ BlockAt(p) = 0 /\ BlockAt(p)' = b
    BY <2>1, <1>2, <1>4, PlacesAre, BlockAtIs, BlockAtNext
  <2>3. \A q \in Places \ {p} : BlockAt(q)' = BlockAt(q)
    BY <2>1, <1>2, <1>5
  <2>4. NamesOK'
    <3> HIDE DEF p
    <3> QED BY <2>1, <2>2, <2>3, <1>2, <1>6, NamesAdd
  <2>5. IndirectOK'
    BY <2>1, <1>4, <1>6 DEF IndirectOK
  <2>6. /\ Backed(din'[i], entries'[i])
        /\ Backed(ddin[i], entries[i]) => Backed(ddin[i], entries'[i])
    BY <2>1, <1>9, <1>10
  <2>7. MappedOK'
    <3>1. \A j \in Inodes : Backed(Inode(j)', entries'[j])
      BY <2>6, <1>4 DEF NameInv, MappedOK
    <3>2. \A j \in Inodes : ref[j] > 0 /\ ~dirty'[j] => Backed(ddin[j], entries'[j])
      BY <2>1, <2>6, <1>1 DEF NameInv, MappedOK, OnlyFile
    <3> QED BY <3>1, <3>2 DEF MappedOK, Backed
  <2>8. NothingLost'
    BY <2>1, <1>1 DEF NameInv, NothingLost, OnlyFile
  <2> QED BY <2>4, <2>5, <2>7, <2>8 DEF NameInv
<1>11. ASSUME NEW e \in free, NEW b \in free, x >= din[i].blocks, NewIndirect(i, x, e, b)
       PROVE  NameInv'
  <2> DEFINE p == <<i, "indirect", 0>>
             q == <<i, "entry", y>>
  <2>1. /\ y \in Entries /\ entries[i][y] = 0 /\ b # 0 /\ e # 0 /\ x >= SFS_NDIRECT
        /\ din'[i].direct = din[i].direct /\ din'[i].indirect = e
        /\ din[i].indirect = 0 /\ entries'[i] = [entries[i] EXCEPT ![y] = b]
        /\ free' = free \ {e, b} /\ e # b /\ dirty'[i]
    BY <1>1, <1>3, <1>11 DEF NewIndirect
  <2>2. /\ p \in Places /\ BlockAt(p) = 0 /\ BlockAt(p)' = e
        /\ q \in Places /\ BlockAt(q) = 0 /\ BlockAt(q)' = b /\ p # q
    BY <2>1, <1>2, <1>4, PlacesAre, BlockAtIs, BlockAtNext
  <2>3. \A r \in Places \ {p, q} : BlockAt(r)' = BlockAt(r)
    BY <2>1, <1>2, <1>5
  <2>4. NamesOK'
    <3> HIDE DEF p, q
    <3> QED BY <2>1, <2>2, <2>3, <1>2, <1>6, NamesAddTwo
  <2>5. IndirectOK'
    BY <2>1, <1>4, <1>6 DEF IndirectOK
  <2>6. Backed(din'[i], entries'[i])
    BY <2>1, <1>9, <1>11
  <2>7. MappedOK'
    <3>1. \A j \in Inodes : Backed(Inode(j)', entries'[j])
      BY <2>6, <1>4 DEF NameInv, MappedOK
    <3>2. \A j \in Inodes : ref[j] > 0 /\ ~dirty'[j] => Backed(ddin[j], entries'[j])
      BY <2>1, <1>1 DEF NameInv, MappedOK, OnlyFile
    <3> QED BY <3>1, <3>2 DEF MappedOK, Backed
  <2>8. NothingLost'
    BY <2>1, <1>1 DEF NameInv, NothingLost, OnlyFile
  <2> QED BY <2>4, <2>5, <2>7, <2>8 DEF NameInv
<1> QED BY <1>1, <1>7, <1>8, <1>10, <1>11 DEF Loaded

\* Giving back the last block clears its place.
LEMMA NameFree ==
  ASSUME CallInv, NameInv, NEW i \in Inodes, ref[i] > 0, din[i].blocks > 0,
         FreeLast(i), UNCHANGED <<ddin, ref, panic>>,
         Mapped(i, din[i].blocks - 1) \notin free
  PROVE  NameInv'
<1>1. FileTypes /\ OnlyFile(i) /\ Freed(i, din[i].blocks - 1)
  BY FreeEffect DEF CallInv
<1>2. /\ din[i].direct \in [Directs -> BlkNo] /\ entries[i] \in [Entries -> BlkNo]
      /\ din[i].blocks \in Nat /\ free \subseteq Blocks /\ din[i].blocks <= MaxBlocks
      /\ SFS_NDIRECT \in Nat /\ SFS_BLK_NENTRY \in Nat
  BY SfsFileAssumption DEF CallInv, TypeOK, DiskInode, BoundOK
<1>3. /\ Inode(i)' = din'[i] /\ Inode(i) = din[i]
      /\ \A j \in Inodes \ {i} : Inode(j)' = Inode(j) /\ entries'[j] = entries[j]
  BY <1>1 DEF Inode, OnlyFile
<1>4. PICK x \in Nat : x = din[i].blocks - 1
  BY <1>2
<1> DEFINE y == x - SFS_NDIRECT
           p == IF x < SFS_NDIRECT THEN <<i, "direct", x>> ELSE <<i, "entry", y>>
<1>5. /\ x < SFS_NDIRECT => x \in Directs
      /\ x >= SFS_NDIRECT => y \in Entries
  BY <1>2, <1>4 DEF Directs, Entries, MaxBlocks
<1>6. /\ din'[i].blocks = x /\ din'[i].indirect = din[i].indirect /\ dirty'[i]
      /\ x < SFS_NDIRECT => /\ din'[i].direct = [din[i].direct EXCEPT ![x] = 0]
                            /\ entries'[i] = entries[i]
      /\ x >= SFS_NDIRECT => /\ din'[i].direct = din[i].direct
                             /\ entries'[i] = [entries[i] EXCEPT ![y] = 0]
      /\ free' = IF Mapped(i, x) = 0 THEN free ELSE free \union {Mapped(i, x)}
  BY <1>1, <1>4 DEF Freed
<1>7. p \in Places /\ BlockAt(p) = Mapped(i, x) /\ BlockAt(p)' = 0
  <2>1. CASE x < SFS_NDIRECT
    BY <2>1, <1>2, <1>3, <1>5, <1>6, PlacesAre, BlockAtIs, BlockAtNext DEF Mapped
  <2>2. CASE ~(x < SFS_NDIRECT)
    <3>1. x >= SFS_NDIRECT /\ p = <<i, "entry", y>>
      BY <2>2, <1>2
    <3> QED BY <2>2, <3>1, <1>2, <1>3, <1>5, <1>6, PlacesAre, BlockAtIs, BlockAtNext DEF Mapped
  <2> QED BY <2>1, <2>2
<1>8. \A q \in Places \ {p} : BlockAt(q)' = BlockAt(q)
  <2> SUFFICES ASSUME NEW q \in Places, q # p PROVE BlockAt(q)' = BlockAt(q)
    OBVIOUS
  <2>1. ASSUME NEW j \in Inodes, NEW k \in Directs, q = <<j, "direct", k>>
        PROVE  BlockAt(q)' = BlockAt(q)
    <3>1. CASE j # i
      BY <3>1, <2>1, <1>3, BlockAtIs, BlockAtNext
    <3>2. CASE j = i
      <4>1. din'[i].direct[k] = din[i].direct[k]
        BY <3>2, <2>1, <1>2, <1>6
      <4> QED BY <4>1, <3>2, <2>1, <1>3, BlockAtIs, BlockAtNext
    <3> QED BY <3>1, <3>2
  <2>2. ASSUME NEW j \in Inodes, q = <<j, "indirect", 0>>
        PROVE  BlockAt(q)' = BlockAt(q)
    BY <2>2, <1>3, <1>6, BlockAtIs, BlockAtNext
  <2>3. ASSUME NEW j \in Inodes, NEW k \in Entries, q = <<j, "entry", k>>
        PROVE  BlockAt(q)' = BlockAt(q)
    <3>1. CASE j # i
      BY <3>1, <2>3, <1>3, BlockAtIs, BlockAtNext
    <3>2. CASE j = i
      <4>1. entries'[i][k] = entries[i][k]
        BY <3>2, <2>3, <1>2, <1>6
      <4> QED BY <4>1, <3>2, <2>3, <1>3, BlockAtIs, BlockAtNext
    <3> QED BY <3>1, <3>2
  <2> QED BY <2>1, <2>2, <2>3, PlacesAre
<1>9. NamesOK'
  <2>1. NamesOK
    BY DEF NameInv
  <2> HIDE DEF p
  <2> QED BY <2>1, <1>2, <1>6, <1>7, <1>8, NamesDrop
<1>10. IndirectOK'
  <2>1. ASSUME din[i].indirect = 0 PROVE entries'[i] = NoEntries
    <3>1. entries[i] = NoEntries
      BY <2>1, <1>3 DEF NameInv, IndirectOK
    <3> QED BY <3>1, <1>2, <1>5, <1>6 DEF NoEntries
  <2>2. \A j \in Inodes : Inode(j)'.indirect = 0 => entries'[j] = NoEntries
    BY <2>1, <1>3, <1>6 DEF NameInv, IndirectOK
  <2> QED BY <2>2 DEF IndirectOK
<1>11. Backed(din'[i], entries'[i])
  <2>1. Backed(din[i], entries[i])
    BY <1>3 DEF NameInv, MappedOK
  <2> SUFFICES ASSUME NEW k \in 0 .. x - 1
               PROVE  (IF k < SFS_NDIRECT THEN din'[i].direct[k]
                       ELSE entries'[i][k - SFS_NDIRECT]) # 0
    BY <1>6 DEF Backed
  <2>2. k \in 0 .. din[i].blocks - 1 /\ k # x /\ k < MaxBlocks /\ k \in Nat
    BY <1>2, <1>4 DEF MaxBlocks
  <2>3. CASE k < SFS_NDIRECT
    <3>1. k \in Directs /\ din[i].direct[k] # 0
      BY <2>1, <2>2, <2>3, <1>2 DEF Backed, Directs
    <3> QED BY <3>1, <2>2, <2>3, <1>2, <1>6
  <2>4. CASE k >= SFS_NDIRECT
    <3>a. /\ SFS_NDIRECT \in Nat /\ SFS_BLK_NENTRY \in Nat /\ k \in Nat
          /\ k < SFS_NDIRECT + SFS_BLK_NENTRY /\ k # x
      BY <2>2, <1>2, SfsFileAssumption DEF MaxBlocks
    <3>0. k - SFS_NDIRECT \in Entries /\ k - SFS_NDIRECT # y
      BY <2>4, <3>a DEF Entries
    <3>1. entries[i][k - SFS_NDIRECT] # 0
      BY <2>1, <2>2, <2>4, <1>2 DEF Backed
    <3> QED BY <3>0, <3>1, <2>2, <2>4, <1>2, <1>4, <1>6
  <2> QED BY <2>2, <2>3, <2>4, <1>2
<1>12. MappedOK'
  <2>1. \A j \in Inodes : Backed(Inode(j)', entries'[j])
    BY <1>3, <1>11 DEF NameInv, MappedOK
  <2>2. \A j \in Inodes : ref[j] > 0 /\ ~dirty'[j] => Backed(ddin[j], entries'[j])
    BY <1>1, <1>6 DEF NameInv, MappedOK, OnlyFile
  <2> QED BY <2>1, <2>2 DEF MappedOK, Backed
<1>13. NothingLost'
  BY <1>1, <1>6 DEF NameInv, NothingLost, OnlyFile
<1> QED BY <1>9, <1>10, <1>12, <1>13 DEF NameInv

\* sfs_block_inuse and the count of unused blocks never fail a load.
LEMMA NoLoadPanic ==
  ASSUME CallInv, NameInv, NEW i \in Inodes, NEW x \in Nat, ref[i] > 0
  PROVE  LoadPanic(i, x) \notin {"inuse", "unused"}
<1>1. /\ din[i].direct \in [Directs -> BlkNo] /\ entries[i] \in [Entries -> BlkNo]
      /\ din[i].blocks \in Nat /\ unused \in Nat /\ unused = Cardinality(free)
      /\ SFS_NDIRECT \in Nat /\ SFS_BLK_NENTRY \in Nat
  BY SfsFileAssumption DEF CallInv, TypeOK, DiskInode, FreeCount
<1>2. Inode(i) = din[i] /\ Backed(din[i], entries[i]) /\ NamesOK
  BY DEF NameInv, MappedOK, Inode
<1>3. CASE x < SFS_NDIRECT
  <2>1. x \in Directs /\ Mapped(i, x) = din[i].direct[x]
    BY <1>1, <1>3 DEF Directs, Mapped
  <2>2. Mapped(i, x) \notin free
    <3>1. <<i, "direct", x>> \in Places /\ BlockAt(<<i, "direct", x>>) = din[i].direct[x]
      BY <2>1, <1>2, PlacesAre, BlockAtIs
    <3> QED BY <3>1, <2>1, <1>2 DEF NamesOK
  <2>3. x < din[i].blocks => Mapped(i, x) # 0
    BY <2>1, <1>1, <1>2, <1>3 DEF Backed
  <2> QED BY <2>2, <2>3, <1>1 DEF LoadPanic
<1>4. CASE x >= SFS_NDIRECT /\ x < SFS_NDIRECT + SFS_BLK_NENTRY
  <2> DEFINE y == x - SFS_NDIRECT
  <2>1. y \in Entries /\ Mapped(i, x) = entries[i][y]
    BY <1>1, <1>4 DEF Entries, Mapped
  <2>2. Mapped(i, x) \notin free
    <3>1. <<i, "entry", y>> \in Places /\ BlockAt(<<i, "entry", y>>) = entries[i][y]
      BY <2>1, PlacesAre, BlockAtIs
    <3> QED BY <3>1, <2>1, <1>2 DEF NamesOK
  <2>3. x < din[i].blocks => Mapped(i, x) # 0
    BY <2>1, <1>1, <1>2, <1>4 DEF Backed
  <2> QED BY <2>2, <2>3, <1>1 DEF LoadPanic
<1>5. CASE x >= SFS_NDIRECT + SFS_BLK_NENTRY
  BY <1>1, <1>5 DEF LoadPanic
<1> QED BY <1>1, <1>3, <1>4, <1>5

LEMMA NameStop ==
  ASSUME NameInv, NEW why, why \notin {"inuse", "unused"}, Stop(why) PROVE NameInv'
BY NameFrame DEF Stop, fileVars, vfsVars

LEMMA NameTransfer ==
  ASSUME CallInv, CountsOK, NameInv, NEW n, NEW r, op.kind = "io", Transfer(n, r)
  PROVE  NameInv'
<1>1. op.ino \in Inodes /\ ref[op.ino] > 0 /\ op.blkno \in Nat
  BY BusyInode, OpCases DEF CallInv, TypeOK, IoRec
<1>2. panic \notin {"inuse", "unused"}
  BY DEF NameInv
<1>3. CASE LoadPanic(op.ino, op.blkno) # "none"
  BY <1>1, <1>3, NoLoadPanic, NameStop DEF Transfer
<1>4. CASE LoadPanic(op.ino, op.blkno) = "none" /\ LoadFails(op.ino, op.blkno)
  BY <1>2, <1>4, NameFrame DEF Transfer, fileVars, vfsVars
<1>5. CASE LoadPanic(op.ino, op.blkno) = "none" /\ ~LoadFails(op.ino, op.blkno)
  <2>1. LoadBlock(op.ino, op.blkno) /\ UNCHANGED <<ddin, ref, panic>>
    BY <1>5 DEF Transfer, vfsVars
  <2> QED BY <2>1, <1>1, <1>5, NameLoad
<1> QED BY <1>3, <1>4, <1>5

LEMMA NameNext ==
  ASSUME CallInv, CountsOK, NameInv, CallInv', [Next]_vars PROVE NameInv'
<1>1. panic \notin {"inuse", "unused"} /\ ref \in [Inodes -> Nat] /\ ref' \in [Inodes -> Nat]
  BY DEF NameInv, CallInv, TypeOK
<1>2. ASSUME NEW f \in Fds, NEW i \in Inodes, NEW trunc \in BOOLEAN,
             NEW append \in BOOLEAN, Open(f, i, trunc, append)
      PROVE  NameInv'
  <2>1. CASE ref[i] + 1 >= MAX_INODE_COUNT
    BY <2>1, <1>2, NameStop DEF Open
  <2>2. CASE ~(ref[i] + 1 >= MAX_INODE_COUNT)
    <3>1. LoadInode(i) /\ UNCHANGED <<ddin, entries, free, unused>>
      BY <2>2, <1>2 DEF Open
    <3>2. panic' = panic \/ panic' = "size"
      BY <2>2, <1>2 DEF Open
    <3> QED BY <3>1, <3>2, <1>1, NameLoadInode
  <2> QED BY <2>1, <2>2
<1>3. ASSUME NEW i \in Inodes, OpenExcl(i) PROVE NameInv'
  BY <1>1, <1>3, NameLoadInode DEF OpenExcl
<1>4. ASSUME NEW f \in Fds, NEW g \in Fds, Dup(f, g) PROVE NameInv'
  <2> DEFINE i == fd[f].ino
  <2>1. i \in Inodes /\ ref[i] \in Nat /\ ref[i] > 0
    BY <1>4, OpenCounted DEF Dup, IsOpen
  <2>2. ref' = [ref EXCEPT ![i] = @ + 1] /\ UNCHANGED <<fileVars, ddin, panic>>
    BY <1>4 DEF Dup
  <2> HIDE DEF i
  <2>3. \A j \in Inodes : ref'[j] > 0 <=> ref[j] > 0
    BY <2>1, <2>2, <1>1
  <2> QED BY <2>2, <2>3, <1>1, NameFrame DEF fileVars
<1>5. ASSUME NEW f \in Fds, Close(f) PROVE NameInv'
  <2>1. PICK i \in Inodes : /\ i = fd[f].ino /\ open[i] \in Nat /\ open[i] > 0
                            /\ ref[i] \in Nat /\ ref[i] > 0
    BY <1>5, OpenCounted DEF Close, IsOpen
  <2>2. CASE CheckFails(i) /\ open[i] = 1
    BY <2>1, <2>2, <1>5, NameStop DEF Close
  <2>3. CASE ~(CheckFails(i) /\ open[i] = 1)
    <3>1. /\ ref' = [ref EXCEPT ![i] = @ - 1]
          /\ IF open[i] = 1 THEN Sync(i) ELSE UNCHANGED <<ddin, dirty>>
          /\ din' = IF ref[i] = 1 THEN [din EXCEPT ![i] = Empty] ELSE din
          /\ UNCHANGED <<entries, free, unused, op, panic>>
      BY <2>1, <2>3, <1>5 DEF Close
    <3>2. /\ \A j \in Inodes \ {i} : ref'[j] = ref[j] /\ din'[j] = din[j]
          /\ ref'[i] = ref[i] - 1
      BY <3>1, <1>1 DEF CallInv, TypeOK
    <3>3. ref'[i] > 0 => din'[i] = din[i]
      BY <3>1, <3>2, <2>1
    <3>4. ref[i] >= open[i]
      BY DEF CountsOK
    <3>5. open[i] # 1 => ref'[i] > 0
      BY <3>2, <3>4, <2>1
    <3>6. Sync(i) \/ (UNCHANGED <<ddin, dirty>> /\ ref'[i] > 0)
      BY <3>1, <3>5
    <3> QED BY <3>1, <3>2, <3>3, <3>6, <2>1, <1>1, NameSync
  <2> QED BY <2>2, <2>3
<1>6. ASSUME NEW f \in Fds, Fsync(f) PROVE NameInv'
  <2>1. PICK i \in Inodes : i = fd[f].ino /\ ref[i] \in Nat /\ ref[i] > 0
    BY <1>6, OpenCounted DEF Fsync, IsOpen
  <2>2. CASE CheckFails(i)
    BY <2>1, <2>2, <1>6, NameStop DEF Fsync
  <2>3. CASE ~CheckFails(i)
    <3>1. Sync(i) /\ UNCHANGED <<din, entries, free, ref, panic>>
      BY <2>1, <2>3, <1>6 DEF Fsync
    <3> QED BY <3>1, <2>1, <1>1, NameSync
  <2> QED BY <2>2, <2>3
<1>7. ASSUME NEW f \in Fds, NEW pos \in Seeks, Seek(f, pos) PROVE NameInv'
  <2>1. CASE CheckFails(fd[f].ino)
    BY <2>1, <1>7, NameStop DEF Seek
  <2>2. CASE ~CheckFails(fd[f].ino)
    <3>1. UNCHANGED <<fileVars, vfsVars, panic>>
      BY <2>2, <1>7 DEF Seek
    <3> QED BY <3>1, <1>1, NameFrame DEF fileVars, vfsVars
  <2> QED BY <2>1, <2>2
<1>8. ASSUME NEW f \in Fds, NEW len \in Lens, NEW write \in BOOLEAN, StartIo(f, len, write)
      PROVE  NameInv'
  <2>1. CASE CheckFails(fd[f].ino)
    BY <2>1, <1>8, NameStop DEF StartIo
  <2>2. CASE ~CheckFails(fd[f].ino)
    <3>1. UNCHANGED <<fileVars, vfsVars, panic>>
      BY <2>2, <1>8 DEF StartIo
    <3> QED BY <3>1, <1>1, NameFrame DEF fileVars, vfsVars
  <2> QED BY <2>1, <2>2
<1>9. ASSUME TruncGrow \/ TruncShrink \/ TruncDone PROVE NameInv'
  <2>1. op.kind = "trunc"
    BY <1>9 DEF TruncGrow, TruncShrink, TruncDone, Doing
  <2>2. PICK i \in Inodes : i = op.ino /\ ref[i] \in Nat /\ ref[i] > 0
    BY <2>1, BusyInode
  <2>3. PICK x \in Nat : x = din[i].blocks
    BY DEF CallInv, TypeOK, DiskInode
  <2>4. op.len \in Nat /\ RoundUpDiv(op.len, SFS_BLKSIZE) \in Nat
    <3>1. op \in TruncRec
      BY <2>1, OpCases DEF CallInv, TypeOK
    <3>2. op.len \in Nat
      BY <3>1 DEF TruncRec
    <3> QED BY <3>2, RoundUp
  <2>5. CASE TruncGrow
    <3>1. CASE LoadPanic(i, x) # "none"
      BY <3>1, <2>2, <2>3, <2>5, NoLoadPanic, NameStop DEF TruncGrow
    <3>2. CASE LoadPanic(i, x) = "none" /\ LoadFails(i, x)
      BY <3>2, <2>2, <2>3, <2>5, <1>1, NameFrame DEF TruncGrow, fileVars, vfsVars
    <3>3. CASE LoadPanic(i, x) = "none" /\ ~LoadFails(i, x)
      <4>1. LoadBlock(i, x) /\ UNCHANGED <<ddin, ref, panic>>
        BY <3>3, <2>2, <2>3, <2>5 DEF TruncGrow, vfsVars
      <4> QED BY <4>1, <3>3, <2>2, NameLoad
    <3> QED BY <3>1, <3>2, <3>3
  <2>6. CASE TruncShrink
    <3>1. x > 0
      BY <2>2, <2>3, <2>4, <2>6 DEF TruncShrink
    <3>2. Mapped(i, x - 1) \notin free
      <4>1. x - 1 \in Nat /\ x - 1 < SFS_NDIRECT + SFS_BLK_NENTRY
            /\ SFS_NDIRECT \in Nat /\ SFS_BLK_NENTRY \in Nat
        BY <3>1, <2>3, SfsFileAssumption DEF CallInv, BoundOK, MaxBlocks
      <4>2. NamesOK /\ Inode(i) = din[i]
        BY <2>2 DEF NameInv, Inode
      <4>3. CASE x - 1 < SFS_NDIRECT
        <5>1. x - 1 \in Directs /\ Mapped(i, x - 1) = din[i].direct[x - 1]
          BY <4>1, <4>3 DEF Directs, Mapped
        <5>2. <<i, "direct", x - 1>> \in Places
              /\ BlockAt(<<i, "direct", x - 1>>) = din[i].direct[x - 1]
          BY <5>1, <4>2, PlacesAre, BlockAtIs
        <5> QED BY <5>1, <5>2, <4>2 DEF NamesOK
      <4>4. CASE ~(x - 1 < SFS_NDIRECT)
        <5> DEFINE y == x - 1 - SFS_NDIRECT
        <5>1. y \in Entries /\ Mapped(i, x - 1) = entries[i][y]
          BY <4>1, <4>4 DEF Entries, Mapped
        <5>2. <<i, "entry", y>> \in Places /\ BlockAt(<<i, "entry", y>>) = entries[i][y]
          BY <5>1, PlacesAre, BlockAtIs
        <5> QED BY <5>1, <5>2, <4>2 DEF NamesOK
      <4> QED BY <4>3, <4>4
    <3>3. FreeLast(i) /\ UNCHANGED <<ddin, ref, panic>>
      BY <3>2, <2>2, <2>3, <2>6 DEF TruncShrink, vfsVars
    <3> QED BY <3>1, <3>2, <3>3, <2>2, <2>3, NameFree
  <2>7. CASE TruncDone
    <3>1. /\ din' = [din EXCEPT ![i].size = op.len] /\ dirty' = [dirty EXCEPT ![i] = TRUE]
          /\ UNCHANGED <<ddin, entries, free, ref, panic>>
      BY <2>2, <2>7 DEF TruncDone
    <3> QED BY <3>1, <2>2, NameResize
  <2> QED BY <2>5, <2>6, <2>7, <1>9
<1>10. ASSUME IoHead \/ IoBlock \/ IoTail PROVE NameInv'
  <2>1. op.kind = "io"
    BY <1>10 DEF IoHead, IoBlock, IoTail, Doing
  <2> QED BY <2>1, <1>10, NameTransfer DEF IoHead, IoBlock, IoTail
<1>11. ASSUME IoOut PROVE NameInv'
  <2>1. PICK i \in Inodes : i = op.ino /\ ref[i] > 0
    BY <1>11, BusyInode DEF IoOut, Doing
  <2>2. CASE op.pos > din[i].size
    <3>1. /\ din' = [din EXCEPT ![i].size = op.pos] /\ dirty' = [dirty EXCEPT ![i] = TRUE]
          /\ UNCHANGED <<ddin, entries, free, ref, panic>>
      BY <2>1, <2>2, <1>11 DEF IoOut
    <3> QED BY <3>1, <2>1, NameResize
  <2>3. CASE ~(op.pos > din[i].size)
    BY <2>1, <2>3, <1>1, <1>11, NameFrame DEF IoOut
  <2> QED BY <2>2, <2>3
<1>12. ASSUME UNCHANGED vars PROVE NameInv'
  BY <1>1, <1>12, NameFrame DEF vars
<1> QED BY <1>2, <1>3, <1>4, <1>5, <1>6, <1>7, <1>8, <1>9, <1>10, <1>11, <1>12 DEF Next

----------------------------------------------------------------------------
(* Blocks, transfers and inodes: no assumption on how files are used *)

FilesInv == CallInv /\ CountsOK /\ NameInv

LEMMA FilesInvInit == Init => FilesInv
BY CallInit, CountsInit, NameInit DEF FilesInv

LEMMA FilesInvNext == FilesInv /\ [Next]_vars => FilesInv'
<1> SUFFICES ASSUME FilesInv, [Next]_vars PROVE FilesInv'
  OBVIOUS
<1>1. CallInv'
  BY CallNext DEF FilesInv
<1>2. CountsOK'
  BY CountsNext DEF FilesInv
<1>3. NameInv'
  BY <1>1, NameNext DEF FilesInv
<1> QED BY <1>1, <1>2, <1>3 DEF FilesInv

\* The invariant that the results below rest on: the types, the call in
\* progress and its descriptor, the counts, and the names of blocks, over every
\* call of file.c, sfs_inode.c and vfsfile.c that SfsFile models.
THEOREM FilesInvariant == Spec => []FilesInv
<1>1. Init => FilesInv
  BY FilesInvInit
<1>2. FilesInv /\ [Next]_vars => FilesInv'
  BY FilesInvNext
<1> QED BY <1>1, <1>2, PTL DEF Spec

LEMMA NamesCount ==
  ASSUME CallInv, NamesOK, NEW b \in Blocks
  PROVE  Cardinality({p \in Places : BlockAt(p) = b}) = (IF b \in free THEN 0 ELSE 1)
<1> DEFINE S == {p \in Places : BlockAt(p) = b}
<1>1. CASE b \in free
  <2>1. S = {}
    BY <1>1 DEF NamesOK
  <2> QED BY <2>1, <1>1, FS_EmptySet
<1>2. CASE b \notin free
  <2>1. PICK p \in Places : BlockAt(p) = b
    BY <1>2 DEF NamesOK
  <2>2. b # 0
    BY DEF Blocks
  <2>3. S = {p}
    BY <2>1, <2>2 DEF NamesOK
  <2> QED BY <2>3, <1>2, FS_Singleton
<1> QED BY <1>1, <1>2

\* No block of the disk belongs to two files or to none while it is in use, and
\* super.unused_blocks counts the free ones: sfs_block_alloc, sfs_block_free,
\* sfs_bmap_get_nolock and sfs_bmap_truncate_nolock, full disks included.
THEOREM BlocksOwned == Spec => []BlocksOK
<1>1. FilesInv => BlocksOK
  BY NamesCount DEF FilesInv, NameInv, CallInv, FreeCount, BlocksOK
<1> QED BY <1>1, FilesInvariant, PTL

LEMMA PiecesCover == CallInv => TransferOK
<1> SUFFICES ASSUME CallInv, op.kind = "io" PROVE TransferOK
  BY DEF TransferOK
<1>1. /\ op \in IoRec /\ op.offset \in Nat /\ op.pos \in Nat /\ op.end \in Nat
      /\ op.nblks \in Nat /\ op.blkno \in Nat /\ PieceOK
  BY OpCases DEF CallInv, TypeOK, IoRec
<1>2. op.offset <= op.pos /\ op.pos <= op.end
  BY <1>1 DEF PieceOK
<1>3. ASSUME op.at = "head"
      PROVE  op.blkno = op.pos \div SFS_BLKSIZE /\ op.pos + HeadSize <= op.end
  <2>1. /\ op.pos = op.offset /\ op.offset < op.end /\ op.offset % B # 0
        /\ op.blkno = op.offset \div B /\ op.nblks = (op.end \div B) - op.blkno
    BY <1>1, <1>3 DEF PieceOK
  <2>2. HeadSize = IF op.nblks # 0 THEN B - (op.offset % B) ELSE op.end - op.offset
    BY DEF HeadSize, B
  <2>3. op.offset + HeadSize <= op.end
    BY <2>1, <2>2, <1>1, HeadPiece
  <2> QED BY <2>1, <2>3 DEF B
<1>4. ASSUME op.at = "body", op.pos < op.end
      PROVE  /\ op.blkno * SFS_BLKSIZE = op.pos
             /\ op.end - op.pos >= op.nblks * SFS_BLKSIZE
             /\ op.end - op.pos < (op.nblks + 1) * SFS_BLKSIZE
  <2>1. /\ op.blkno * B = op.pos /\ op.nblks * B <= op.end - op.pos
        /\ op.end - op.pos < op.nblks * B + B
    BY <1>1, <1>4 DEF PieceOK, Rest
  <2>2. op.nblks \in Int
    BY <1>1
  <2>3. (op.nblks + 1) * B = op.nblks * B + B /\ op.nblks * B \in Int
    BY <2>2, TimesB
  <2>4. op.end - op.pos >= op.nblks * B /\ op.end - op.pos < (op.nblks + 1) * B
    BY <2>1, <2>3, <1>1, BType
  <2> QED BY <2>1, <2>4 DEF B
<1> QED BY <1>2, <1>3, <1>4 DEF TransferOK

\* The pieces that sfs_io_nolock moves cover the transfer exactly, whatever the
\* offset, the length and the size of a block.
THEOREM TransfersExact == Spec => []TransferOK
<1>1. FilesInv => TransferOK
  BY PiecesCover DEF FilesInv
<1> QED BY <1>1, FilesInvariant, PTL

\* References cover the descriptors, and an inode that is not dirty can leave
\* memory without a loss: vfs_open, vfs_close, sfs_fsync and sfs_reclaim.
THEOREM InodesKept == Spec => []InodeOK
<1>1. FilesInv => InodeOK
  BY DEF FilesInv, NameInv, InodeOK
<1> QED BY <1>1, FilesInvariant, PTL

----------------------------------------------------------------------------
(* Sizes: as long as no file is cut while another descriptor has it *)

LEMMA FitsMore ==
  ASSUME NEW m \in DiskInode, NEW n \in DiskInode, Fits(m),
         n.size <= m.size, m.blocks <= n.blocks
  PROVE  Fits(n)
<1>1. m.blocks \in Int /\ n.blocks \in Int /\ m.size \in Nat /\ n.size \in Nat
  BY DEF DiskInode
<1>2. m.blocks * B <= n.blocks * B /\ m.blocks * B \in Int /\ n.blocks * B \in Int
  BY <1>1, TimesB
<1> QED BY <1>1, <1>2 DEF Fits

\* Steps that leave the inodes alone.
LEMMA SizeFrame ==
  ASSUME SizeInv, UNCHANGED <<din, dirty, ddin>>, panic' # "index",
         \A j \in Inodes : ref'[j] > 0 <=> ref[j] > 0,
         \A j \in Inodes : Opening(j) => Opening(j)', PosOK'
  PROVE  SizeInv'
<1>1. \A j \in Inodes : Inode(j)' = Inode(j)
  BY DEF Inode
<1>2. FitsOK'
  <2>1. \A j \in Inodes : Fits(Inode(j)') \/ Opening(j)'
    BY <1>1 DEF SizeInv, FitsOK, Opening
  <2>2. \A j \in Inodes : ref'[j] > 0 /\ ~dirty'[j] => Fits(ddin'[j])
    BY DEF SizeInv, FitsOK
  <2> QED BY <2>1, <2>2 DEF FitsOK, Opening, Fits
<1> QED BY <1>2 DEF SizeInv

LEMMA SizeStop ==
  ASSUME SizeInv, NEW why, why # "index", Stop(why) PROVE SizeInv'
<1>1. UNCHANGED <<din, dirty, ddin, ref, fd, op>> /\ panic' # "index"
  BY DEF Stop, fileVars, vfsVars
<1>2. PosOK'
  BY <1>1 DEF SizeInv, PosOK, IsOpen
<1>3. \A j \in Inodes : Opening(j) => Opening(j)'
  BY <1>1 DEF Opening
<1> QED BY <1>1, <1>2, <1>3, SizeFrame

LEMMA SizeInit == ASSUME Init PROVE SizeInv
<1>1. Fits(Empty)
  BY BType DEF Fits, Empty
<1>2. \A j \in Inodes : Inode(j) = Empty
  BY DEF Inode, Init
<1>3. FitsOK
  BY <1>1, <1>2 DEF FitsOK, Init
<1>4. PosOK
  BY DEF PosOK, Init, IsOpen, Idle
<1> QED BY <1>3, <1>4 DEF SizeInv, Init

\* One more reference to an inode keeps the sizes, when no call is in progress.
LEMMA SizeLoadInode ==
  ASSUME FilesInv, SizeInv, op = Idle, NEW i \in Inodes, LoadInode(i),
         UNCHANGED <<ddin, entries, free, unused>>
  PROVE  /\ FitsOK'
         /\ \A f \in Fds : IsOpen(f) => din'[fd[f].ino] = din[fd[f].ino]
<1>1. /\ ref \in [Inodes -> Nat]
      /\ \A j \in Inodes : ref'[j] = IF j = i THEN ref[j] + 1 ELSE ref[j]
      /\ \A j \in Inodes : din'[j] = IF j = i /\ ref[i] = 0 THEN ddin[j] ELSE din[j]
      /\ \A j \in Inodes : dirty'[j] = IF j = i /\ ref[i] = 0 THEN FALSE ELSE dirty[j]
  BY CallParts, LoadInodeTypes DEF UserPart, FilesInv
<1>2. \A j \in Inodes : Inode(j)' = Inode(j)
  BY <1>1 DEF Inode
<1>3. \A j \in Inodes : Fits(Inode(j))
  BY DEF SizeInv, FitsOK, Idle
<1>4. \A j \in Inodes : ref'[j] > 0 /\ ~dirty'[j] => Fits(ddin[j])
  <2> SUFFICES ASSUME NEW j \in Inodes, ref'[j] > 0, ~dirty'[j] PROVE Fits(ddin[j])
    OBVIOUS
  <2>1. CASE ref[j] = 0
    <3>1. Inode(j) = ddin[j]
      BY <2>1 DEF Inode
    <3>2. Fits(Inode(j))
      BY <1>3
    <3> QED BY <3>1, <3>2
  <2>2. CASE ref[j] > 0
    <3>1. ~(j = i /\ ref[i] = 0)
      BY <2>2
    <3>2. ~dirty[j]
      BY <3>1, <1>1, Zenon
    <3> QED BY <3>2, <2>2 DEF SizeInv, FitsOK
  <2> QED BY <2>1, <2>2, <1>1
<1>5. FitsOK'
  <2>1. \A j \in Inodes : Fits(Inode(j)')
    BY <1>2, <1>3
  <2> QED BY <2>1, <1>4 DEF FitsOK, Fits
<1>6. ASSUME NEW f \in Fds, IsOpen(f) PROVE din'[fd[f].ino] = din[fd[f].ino]
  BY <1>1, <1>6, OpenCounted DEF FilesInv
<1> QED BY <1>5, <1>6

LEMMA SizeOpen ==
  ASSUME ~TruncShared, FilesInv, SizeInv, NEW f \in Fds, NEW i \in Inodes,
         NEW trunc \in BOOLEAN, NEW append \in BOOLEAN, Open(f, i, trunc, append), CallInv'
  PROVE  SizeInv'
<1>1. CASE ref[i] + 1 >= MAX_INODE_COUNT
  BY <1>1, SizeStop DEF Open
<1>2. CASE ~(ref[i] + 1 >= MAX_INODE_COUNT)
  <2>1. /\ LoadInode(i) /\ UNCHANGED <<ddin, entries, free, unused>>
        /\ op = Idle /\ (trunc => open[i] = 0) /\ fd[f] = NoFile
        /\ panic = "none"
    BY <1>2 DEF Open, Ready
  <2>2. FitsOK' /\ \A g \in Fds : IsOpen(g) => din'[fd[g].ino] = din[fd[g].ino]
    BY <2>1, SizeLoadInode
  <2>3. \A g \in Fds : IsOpen(g) => fd[g].pos <= din'[fd[g].ino].size
    BY <2>2 DEF SizeInv, PosOK
  <2>4. din'[i].size \in Nat /\ fd \in [Fds -> File]
    BY DEF CallInv, TypeOK, DiskInode, FilesInv
  <2>5. CASE trunc /\ din'[i].size # 0
    <3>1. op' = TruncOp(f, i, 0, "open") /\ UNCHANGED <<fd, panic>>
      BY <2>5, <1>2 DEF Open
    <3>2. op'.kind = "trunc" /\ op'.caller = "open" /\ op'.ino = i
      BY <3>1 DEF TruncOp
    <3>3. \A g \in Fds : IsOpen(g) => fd[g].ino # i
      BY <2>1, <2>5, OpenCounted DEF FilesInv
    <3>4. PosOK'
      BY <3>1, <3>2, <3>3, <2>3 DEF PosOK, IsOpen
    <3> QED BY <3>1, <3>4, <2>1, <2>2 DEF SizeInv
  <2>6. CASE ~(trunc /\ din'[i].size # 0)
    <3> DEFINE p == IF append THEN din'[i].size ELSE 0
    <3>1. /\ fd' = [fd EXCEPT ![f] = [used |-> TRUE, ino |-> i, pos |-> p]]
          /\ UNCHANGED op /\ (panic' = panic \/ panic' = "size")
      BY <2>6, <1>2 DEF Open
    <3>2. p <= din'[i].size
      BY <2>4
    <3>3. /\ fd'[f].ino = i /\ fd'[f].pos = p
          /\ \A g \in Fds \ {f} : fd'[g] = fd[g]
      BY <3>1, <2>4
    <3>4. \A g \in Fds : IsOpen(g)' => fd'[g].pos <= din'[fd'[g].ino].size
      BY <3>2, <3>3, <2>3 DEF IsOpen
    <3>5. PosOK'
      BY <3>1, <3>4, <2>1 DEF PosOK, Idle
    <3> QED BY <3>1, <3>5, <2>1, <2>2 DEF SizeInv
  <2> QED BY <2>5, <2>6
<1> QED BY <1>1, <1>2

LEMMA SizeClose ==
  ASSUME FilesInv, SizeInv, NEW f \in Fds, Close(f) \/ Fsync(f), FilesInv'
  PROVE  SizeInv'
<1>1. PICK i \in Inodes : /\ i = fd[f].ino /\ open[i] \in Nat /\ open[i] > 0
                          /\ ref[i] \in Nat /\ ref[i] > 0
  BY OpenCounted DEF Close, Fsync, IsOpen, FilesInv
<1>2. /\ ref \in [Inodes -> Nat] /\ ref' \in [Inodes -> Nat] /\ fd \in [Fds -> File]
      /\ dirty \in [Inodes -> BOOLEAN] /\ ddin \in [Inodes -> DiskInode]
      /\ din \in [Inodes -> DiskInode]
  BY DEF FilesInv, CallInv, TypeOK
<1>3. CASE Stop("ref_count")
  BY <1>3, SizeStop
<1>4. CASE ~Stop("ref_count")
  <2>1. /\ \/ fd' = [fd EXCEPT ![f] = NoFile]
              /\ ref' = [ref EXCEPT ![i] = @ - 1]
              /\ (IF open[i] = 1 THEN Sync(i) ELSE UNCHANGED <<ddin, dirty>>)
              /\ din' = IF ref[i] = 1 THEN [din EXCEPT ![i] = Empty] ELSE din
           \/ Sync(i) /\ UNCHANGED <<din, fd, ref>>
        /\ UNCHANGED <<op, panic>> /\ op = Idle
    BY <1>1, <1>4 DEF Close, Fsync, Ready
  <2>2. /\ \A j \in Inodes \ {i} : ref'[j] = ref[j] /\ din'[j] = din[j]
        /\ ref'[i] > 0 => din'[i] = din[i]
        /\ ref'[i] = 0 => open[i] = 1
    <3>1. ref[i] >= open[i]
      BY DEF FilesInv, CountsOK
    <3> QED BY <3>1, <2>1, <1>1, <1>2
  <2>3. /\ \A j \in Inodes \ {i} : ddin'[j] = ddin[j] /\ dirty'[j] = dirty[j]
        /\ \/ ddin'[i] = ddin[i] /\ dirty'[i] = dirty[i] /\ ref'[i] > 0
           \/ ddin'[i] = din[i] /\ dirty[i]
           \/ ddin'[i] = ddin[i] /\ ~dirty[i]
    BY <2>1, <2>2, <1>1, <1>2 DEF Sync
  <2>4. \A j \in Inodes : Fits(Inode(j))
    BY <2>1 DEF SizeInv, FitsOK, Idle
  <2>5. Fits(din[i]) /\ (~dirty[i] => Fits(ddin[i]))
    <3>1. Inode(i) = din[i]
      BY <1>1 DEF Inode
    <3>2. Fits(Inode(i))
      BY <2>4
    <3> QED BY <3>1, <3>2, <1>1 DEF SizeInv, FitsOK
  <2>6. Fits(Inode(i)') /\ (ref'[i] > 0 /\ ~dirty'[i] => Fits(ddin'[i]))
    BY <2>2, <2>3, <2>5 DEF Inode
  <2>7. \A j \in Inodes \ {i} : Inode(j)' = Inode(j)
    BY <2>2, <2>3 DEF Inode
  <2>8. FitsOK'
    <3>1. \A j \in Inodes : Fits(Inode(j)')
      BY <2>4, <2>6, <2>7
    <3>2. \A j \in Inodes : ref'[j] > 0 /\ ~dirty'[j] => Fits(ddin'[j])
      BY <2>2, <2>3, <2>6 DEF SizeInv, FitsOK
    <3> QED BY <3>1, <3>2 DEF FitsOK, Fits
  <2>9. PosOK'
    <3>1. \A g \in Fds : IsOpen(g)' => IsOpen(g) /\ fd'[g] = fd[g]
      BY <2>1, <1>2 DEF IsOpen
    <3>2. \A g \in Fds : IsOpen(g)' => fd'[g].ino \in Inodes /\ ref'[fd'[g].ino] > 0
      <4> SUFFICES ASSUME NEW g \in Fds, IsOpen(g)'
                   PROVE  fd'[g].ino \in Inodes /\ ref'[fd'[g].ino] > 0
        OBVIOUS
      <4> QED BY OpenCountedNext DEF FilesInv
    <3>3. \A g \in Fds : IsOpen(g)' => fd'[g].pos <= din'[fd'[g].ino].size
      BY <3>1, <3>2, <2>2 DEF SizeInv, PosOK
    <3> QED BY <3>3, <2>1 DEF PosOK, Idle
  <2>10. panic' # "index"
    BY <2>1 DEF SizeInv
  <2> QED BY <2>8, <2>9, <2>10 DEF SizeInv
<1> QED BY <1>3, <1>4

\* The other calls without a loop: a reference, a duplicate, a position.
LEMMA SizeDescriptor ==
  ASSUME FilesInv, SizeInv,
         \/ \E i \in Inodes : OpenExcl(i)
         \/ \E f, g \in Fds : Dup(f, g)
         \/ \E f \in Fds, pos \in Seeks : Seek(f, pos)
  PROVE  SizeInv'
<1>0. /\ ref \in [Inodes -> Nat] /\ fd \in [Fds -> File] /\ din \in [Inodes -> DiskInode]
      /\ panic # "index"
  BY DEF FilesInv, CallInv, TypeOK, SizeInv
<1>1. ASSUME NEW i \in Inodes, OpenExcl(i) PROVE SizeInv'
  <2>1. /\ LoadInode(i) /\ UNCHANGED <<ddin, entries, free, unused, open, fd, op, panic>>
        /\ op = Idle
    BY <1>1 DEF OpenExcl, Ready
  <2>2. FitsOK' /\ \A f \in Fds : IsOpen(f) => din'[fd[f].ino] = din[fd[f].ino]
    BY <2>1, SizeLoadInode
  <2>3. PosOK'
    BY <2>1, <2>2 DEF SizeInv, PosOK, IsOpen, Idle
  <2> QED BY <2>1, <2>2, <2>3, <1>0 DEF SizeInv
<1>2. ASSUME NEW f \in Fds, NEW g \in Fds, Dup(f, g) PROVE SizeInv'
  <2>1. PICK i \in Inodes : i = fd[f].ino /\ ref[i] \in Nat /\ ref[i] > 0
    BY <1>2, OpenCounted DEF Dup, IsOpen, FilesInv
  <2>2. /\ fd' = [fd EXCEPT ![g] = fd[f]] /\ ref' = [ref EXCEPT ![i] = @ + 1]
        /\ UNCHANGED <<din, dirty, ddin, op, panic>> /\ fd[f] # NoFile /\ op = Idle
    BY <2>1, <1>2 DEF Dup, fileVars, Ready
  <2>3. \A j \in Inodes : ref'[j] > 0 <=> ref[j] > 0
    BY <2>1, <2>2, <1>0
  <2>4. \A h \in Fds : fd'[h] = IF h = g THEN fd[f] ELSE fd[h]
    BY <2>2, <1>0
  <2>5. PosOK'
    BY <2>2, <2>4 DEF SizeInv, PosOK, IsOpen, Idle
  <2>6. \A j \in Inodes : Opening(j) => Opening(j)'
    BY <2>2 DEF Opening
  <2> QED BY <2>2, <2>3, <2>5, <2>6, <1>0, SizeFrame
<1>3. ASSUME NEW f \in Fds, NEW pos \in Seeks, Seek(f, pos) PROVE SizeInv'
  <2>1. PICK i \in Inodes : i = fd[f].ino /\ ref[i] \in Nat /\ ref[i] > 0
    BY <1>3, OpenCounted DEF Seek, IsOpen, FilesInv
  <2>2. /\ op = Idle /\ fd[f] # NoFile /\ fd[f] \in File /\ pos \in Nat
        /\ din[i].size \in Nat
    BY <1>0, <1>3, SfsFileAssumption DEF Seek, Ready, DiskInode
  <2>3. CASE CheckFails(i)
    BY <2>1, <2>3, <1>3, SizeStop DEF Seek
  <2>4. CASE ~CheckFails(i) /\ pos > din[i].size
    <3>1. op' = TruncOp(f, i, pos, "seek") /\ UNCHANGED <<fileVars, vfsVars, fd, panic>>
      BY <2>1, <2>4, <1>3 DEF Seek
    <3>2. /\ op'.kind = "trunc" /\ op'.caller = "seek" /\ op'.ino = i /\ op'.len = pos
          /\ UNCHANGED <<din, dirty, ddin, ref, fd, panic>>
      BY <3>1 DEF TruncOp, fileVars, vfsVars
    <3>3. PosOK'
      BY <3>2, <2>2, <2>4 DEF SizeInv, PosOK, IsOpen
    <3>4. \A j \in Inodes : Opening(j) => Opening(j)'
      BY <2>2 DEF Opening, Idle
    <3> QED BY <3>2, <3>3, <3>4, <1>0, SizeFrame
  <2>5. CASE ~CheckFails(i) /\ ~(pos > din[i].size)
    <3>1. /\ fd' = [fd EXCEPT ![f].pos = pos]
          /\ UNCHANGED <<din, dirty, ddin, ref, op, panic>>
      BY <2>1, <2>5, <1>3 DEF Seek, fileVars, vfsVars
    <3>2. fd'[f] = [used |-> TRUE, ino |-> i, pos |-> pos]
      <4>1. fd'[f] = [fd[f] EXCEPT !.pos = pos]
        BY <3>1, <1>0
      <4> QED BY <4>1, <2>1, <2>2, MoveFile
    <3>3. /\ fd'[f].ino = i /\ fd'[f].pos = pos
          /\ \A h \in Fds \ {f} : fd'[h] = fd[h]
      BY <3>1, <3>2, <1>0
    <3>4. pos <= din[i].size
      BY <2>2, <2>5
    <3>5. PosOK'
      BY <3>1, <3>3, <3>4, <2>2 DEF SizeInv, PosOK, IsOpen, Idle
    <3>6. \A j \in Inodes : Opening(j) => Opening(j)'
      BY <3>1 DEF Opening
    <3> QED BY <3>1, <3>5, <3>6, <1>0, SizeFrame
  <2> QED BY <2>3, <2>4, <2>5
<1> QED BY <1>1, <1>2, <1>3

LEMMA SizeStart ==
  ASSUME FilesInv, SizeInv, NEW f \in Fds, NEW len \in Lens, NEW write \in BOOLEAN,
         StartIo(f, len, write)
  PROVE  SizeInv'
<1>1. PICK i \in Inodes : i = fd[f].ino /\ ref[i] \in Nat /\ ref[i] > 0
  BY OpenCounted DEF StartIo, IsOpen, FilesInv
<1>2. CASE CheckFails(i)
  BY <1>1, <1>2, SizeStop DEF StartIo
<1>3. CASE ~CheckFails(i)
  <2> DEFINE o == fd[f].pos
             e == EndPos(i, o, len, write)
  <2>1. /\ op'.kind = "io" /\ op'.ino = i /\ op'.pos = o /\ op'.end = e
        /\ op'.write = write
        /\ UNCHANGED <<fileVars, vfsVars, fd, panic>> /\ op = Idle /\ fd[f] # NoFile
    BY <1>1, <1>3 DEF StartIo, Ready
  <2>2. /\ o \in Nat /\ len \in Nat /\ din[i] \in DiskInode /\ din[i].size \in Nat
        /\ SFS_MAX_FILE_SIZE \in Nat /\ din[i].blocks \in Int
    BY <2>1, FileCases, SfsFileAssumption DEF FilesInv, CallInv, TypeOK, DiskInode
  <2>3. o <= din[i].blocks * B
    <3>1. Inode(i) = din[i]
      BY <1>1 DEF Inode
    <3>2. Fits(Inode(i))
      BY <2>1 DEF SizeInv, FitsOK, Idle
    <3>3. din[i].size <= din[i].blocks * B /\ din[i].blocks * B \in Int
      BY <3>1, <3>2, <2>2, TimesB DEF Fits
    <3>4. o <= din[i].size
      BY <2>1, <1>1 DEF SizeInv, PosOK, IsOpen
    <3> QED BY <3>3, <3>4, <2>2
  <2>4. write \/ e <= din[i].size
    BY <2>2 DEF EndPos, Least
  <2>5. PosOK'
    BY <2>1, <2>3, <2>4 DEF SizeInv, PosOK, IsOpen, Idle, fileVars
  <2>6. \A j \in Inodes : Opening(j) => Opening(j)'
    BY <2>1 DEF Opening, Idle
  <2> QED BY <2>1, <2>5, <2>6, SizeFrame DEF SizeInv, fileVars, vfsVars
<1> QED BY <1>2, <1>3

\* Steps that change the blocks or the size of one file in memory.
LEMMA FitsStep ==
  ASSUME SizeInv, NEW i \in Inodes, ref[i] > 0, UNCHANGED <<ddin, ref>>,
         \A j \in Inodes \ {i} : din'[j] = din[j] /\ dirty'[j] = dirty[j],
         \A j \in Inodes \ {i} : Opening(j) => Opening(j)',
         Fits(din'[i]) \/ Opening(i)', dirty[i] => dirty'[i]
  PROVE  FitsOK'
<1>1. \A j \in Inodes \ {i} : Inode(j)' = Inode(j)
  BY DEF Inode
<1>2. Inode(i)' = din'[i]
  BY DEF Inode
<1>3. \A j \in Inodes : Fits(Inode(j)') \/ Opening(j)'
  BY <1>1, <1>2 DEF SizeInv, FitsOK, Opening
<1>4. \A j \in Inodes : ref'[j] > 0 /\ ~dirty'[j] => Fits(ddin'[j])
  BY DEF SizeInv, FitsOK
<1> QED BY <1>3, <1>4 DEF FitsOK, Fits, Opening

\* Loading a block.
LEMMA FitsLoad ==
  ASSUME CallInv, SizeInv, NEW i \in Inodes, ref[i] > 0, NEW x \in Nat,
         LoadPanic(i, x) = "none", ~LoadFails(i, x), LoadBlock(i, x),
         UNCHANGED <<ddin, ref>>, \A j \in Inodes : Opening(j) => Opening(j)'
  PROVE  /\ FitsOK' /\ \A j \in Inodes : din'[j].size = din[j].size
         /\ din[i].blocks <= din'[i].blocks /\ x < din'[i].blocks
         /\ din'[i].blocks \in Nat /\ din[i].blocks \in Nat
<1>1. /\ x <= din[i].blocks /\ FileTypes /\ OnlyFile(i) /\ Loaded(i, x)
      /\ din'[i].blocks = IF x = din[i].blocks THEN x + 1 ELSE din[i].blocks
  BY LoadEffect DEF CallInv
<1>2. /\ din[i] \in DiskInode /\ din'[i] \in DiskInode /\ din[i].blocks \in Nat
      /\ din[i].size \in Nat
  BY <1>1 DEF CallInv, TypeOK, FileTypes, DiskInode
<1>3. dirty[i] => dirty'[i]
  BY <1>1, Zenon DEF Loaded, OldBlock, NewDirect, NewEntry, NewIndirect
<1>4. /\ din[i].blocks <= din'[i].blocks /\ x < din'[i].blocks
      /\ din'[i].size <= din[i].size /\ din'[i].blocks \in Nat
  BY <1>1, <1>2 DEF OnlyFile
<1>5. Fits(din'[i]) \/ Opening(i)'
  <2>1. Inode(i) = din[i]
    BY DEF Inode
  <2>2. Fits(din[i]) \/ Opening(i)
    BY <2>1 DEF SizeInv, FitsOK, Opening
  <2> QED BY <2>2, <1>2, <1>4, FitsMore
<1>6. FitsOK'
  BY <1>1, <1>3, <1>5, FitsStep DEF OnlyFile
<1>7. \A j \in Inodes : din'[j].size = din[j].size
  BY <1>1 DEF OnlyFile
<1> QED BY <1>2, <1>4, <1>6, <1>7

LEMMA SizeTrunc ==
  ASSUME FilesInv, SizeInv, TruncGrow \/ TruncShrink \/ TruncDone, CallInv'
  PROVE  SizeInv'
<1>1. op.kind = "trunc" /\ op \in TruncRec
  BY OpCases DEF TruncGrow, TruncShrink, TruncDone, Doing, FilesInv, CallInv, TypeOK
<1>2. PICK i \in Inodes : i = op.ino /\ ref[i] \in Nat /\ ref[i] > 0
  BY <1>1, BusyInode DEF FilesInv
<1>3. PICK x \in Nat : x = din[i].blocks
  BY DEF FilesInv, CallInv, TypeOK, DiskInode
<1>4. PICK m \in Nat : m = RoundUpDiv(op.len, SFS_BLKSIZE)
                       /\ op.len <= m * B /\ (op.len = 0 => m = 0)
  BY <1>1, RoundUp DEF TruncRec
<1>5. /\ op.len \in Nat /\ op.fd \in Fds /\ op.caller \in {"open", "seek"}
      /\ din \in [Inodes -> DiskInode] /\ fd \in [Fds -> File] /\ din[i].size \in Nat
      /\ panic # "index" /\ m * B \in Int /\ x * B \in Int
      /\ op.caller = "open" => op.len = 0
      /\ op.caller = "seek" => fd[op.fd].ino = i
  <2>1. x \in Int /\ m \in Int
    OBVIOUS
  <2>2. m * B \in Int /\ x * B \in Int
    BY <2>1, TimesB
  <2>3. din \in [Inodes -> DiskInode] /\ fd \in [Fds -> File] /\ CallOK
    BY DEF FilesInv, CallInv, TypeOK
  <2>4. din[i].size \in Nat
    BY <2>3 DEF DiskInode
  <2> QED BY <2>2, <2>3, <2>4, <1>1, <1>2 DEF TruncRec, SizeInv, CallOK
<1>6. ASSUME op.caller = "seek" PROVE Fits(din[i])
  <2>1. Inode(i) = din[i]
    BY <1>2 DEF Inode
  <2> QED BY <2>1, <1>2, <1>6 DEF SizeInv, FitsOK
<1>7. ASSUME UNCHANGED <<fd, op>>, \A j \in Inodes : din'[j].size = din[j].size PROVE PosOK'
  <2>1. \A f \in Fds : IsOpen(f) => fd[f].ino \in Inodes
    BY <1>5, FileCases DEF IsOpen
  <2> QED BY <2>1, <1>1, <1>2, <1>7 DEF SizeInv, PosOK, IsOpen
<1>8. CASE TruncGrow
  <2>1. x < m
    BY <1>2, <1>3, <1>4, <1>8 DEF TruncGrow
  <2>2. op.caller = "seek"
    BY <2>1, <1>4, <1>5
  <2>3. CASE LoadPanic(i, x) # "none"
    <3>1. LoadPanic(i, x) # "index"
      BY <1>3 DEF LoadPanic
    <3> QED BY <3>1, <2>3, <1>2, <1>3, <1>8, SizeStop DEF TruncGrow
  <2>4. CASE LoadPanic(i, x) = "none" /\ LoadFails(i, x)
    <3>1. op' = Idle /\ UNCHANGED <<din, dirty, ddin, ref, fd, panic>>
      BY <2>4, <1>2, <1>3, <1>8 DEF TruncGrow, TruncReturn, fileVars, vfsVars
    <3>2. PosOK'
      BY <3>1 DEF SizeInv, PosOK, IsOpen, Idle
    <3>3. \A j \in Inodes : Opening(j) => Opening(j)'
      BY <2>2 DEF Opening
    <3> QED BY <3>1, <3>2, <3>3, <1>5, SizeFrame
  <2>5. CASE LoadPanic(i, x) = "none" /\ ~LoadFails(i, x)
    <3>1. LoadBlock(i, x) /\ UNCHANGED <<ddin, ref, fd, op, panic>>
      BY <2>5, <1>2, <1>3, <1>8 DEF TruncGrow, vfsVars
    <3>2. \A j \in Inodes : Opening(j) => Opening(j)'
      BY <3>1 DEF Opening
    <3>3. FitsOK' /\ \A j \in Inodes : din'[j].size = din[j].size
      BY <3>1, <3>2, <2>5, <1>2, FitsLoad DEF FilesInv
    <3> QED BY <3>1, <3>3, <1>5, <1>7 DEF SizeInv
  <2> QED BY <2>3, <2>4, <2>5
<1>9. CASE TruncShrink
  <2>1. x > m
    BY <1>2, <1>3, <1>4, <1>9 DEF TruncShrink
  <2>2. CASE Mapped(i, x - 1) \in free
    BY <2>2, <1>2, <1>3, <1>9, SizeStop DEF TruncShrink
  <2>3. CASE Mapped(i, x - 1) \notin free
    <3>1. FreeLast(i) /\ UNCHANGED <<ddin, ref, fd, op, panic>>
      BY <2>3, <1>2, <1>3, <1>9 DEF TruncShrink, vfsVars
    <3>2. FileTypes /\ OnlyFile(i) /\ Freed(i, x - 1)
      BY <3>1, <2>1, <2>3, <1>3, FreeEffect DEF FilesInv, CallInv
    <3>3. Fits(din'[i]) \/ Opening(i)
      <4>1. CASE op.caller = "open"
        BY <4>1, <1>1, <1>2 DEF Opening
      <4>2. CASE op.caller = "seek"
        <5>1. din[i].size < op.len /\ din'[i].size = din[i].size /\ din'[i].blocks = x - 1
          BY <4>2, <3>2, <1>1, <1>2 DEF SizeInv, PosOK, OnlyFile, Freed
        <5>2. x - 1 \in Int /\ m <= x - 1
          BY <2>1
        <5>3. m * B <= (x - 1) * B /\ (x - 1) * B \in Int
          BY <5>2, TimesB
        <5>4. din[i].size <= (x - 1) * B
          BY <5>1, <5>3, <1>4, <1>5
        <5> QED BY <5>1, <5>4 DEF Fits
      <4> QED BY <4>1, <4>2, <1>5
    <3>4. \A j \in Inodes : Opening(j) => Opening(j)'
      BY <3>1 DEF Opening
    <3>5. FitsOK'
      BY <3>1, <3>2, <3>3, <3>4, <1>2, FitsStep DEF OnlyFile, Freed
    <3>6. \A j \in Inodes : din'[j].size = din[j].size
      BY <3>2 DEF OnlyFile
    <3> QED BY <3>1, <3>5, <3>6, <1>5, <1>7 DEF SizeInv
  <2> QED BY <2>2, <2>3
<1>10. CASE TruncDone
  <2>1. /\ din' = [din EXCEPT ![i].size = op.len] /\ x = m
        /\ dirty' = [dirty EXCEPT ![i] = TRUE]
        /\ op' = Idle /\ UNCHANGED <<ddin, ref, panic>>
        /\ fd' = [fd EXCEPT ![op.fd] = [used |-> TRUE, ino |-> i, pos |-> op.len]]
    BY <1>2, <1>3, <1>4, <1>10 DEF TruncDone, TruncReturn
  <2>2. /\ \A j \in Inodes \ {i} : din'[j] = din[j]
        /\ din'[i].size = op.len /\ din'[i].blocks = x
    BY <2>1, <1>3, <1>5 DEF DiskInode
  <2>3. dirty'[i] /\ \A j \in Inodes \ {i} : dirty'[j] = dirty[j]
    BY <2>1 DEF FilesInv, CallInv, TypeOK
  <2>4. Fits(din'[i])
    BY <2>1, <2>2, <1>4 DEF Fits
  <2>5. \A j \in Inodes \ {i} : ~Opening(j)
    BY <1>2 DEF Opening
  <2>6. FitsOK'
    BY <2>1, <2>2, <2>3, <2>4, <2>5, <1>2, FitsStep
  <2>7. /\ fd'[op.fd].ino = i /\ fd'[op.fd].pos = op.len
        /\ \A f \in Fds \ {op.fd} : fd'[f] = fd[f]
    BY <2>1, <1>5
  <2>8. ASSUME NEW f \in Fds, IsOpen(f)' PROVE fd'[f].pos <= din'[fd'[f].ino].size
    <3>1. CASE f = op.fd
      BY <3>1, <2>2, <2>7, <1>5
    <3>2. CASE f # op.fd
      <4>1. IsOpen(f) /\ fd'[f] = fd[f] /\ fd[f].ino \in Inodes /\ fd[f].pos \in Nat
        BY <3>2, <2>7, <2>8, <1>5, FileCases DEF IsOpen
      <4>2. fd[f].pos <= din[fd[f].ino].size
        BY <4>1 DEF SizeInv, PosOK
      <4>3. CASE fd[f].ino = i
        <5>1. op.caller = "seek" /\ din[i].size < op.len
          BY <4>1, <4>3, <1>1, <1>2, <1>5 DEF SizeInv, PosOK
        <5> QED BY <5>1, <4>1, <4>2, <4>3, <2>2, <1>5
      <4> QED BY <4>1, <4>2, <4>3, <2>2
    <3> QED BY <3>1, <3>2
  <2>9. PosOK'
    BY <2>1, <2>8 DEF PosOK, Idle
  <2> QED BY <2>1, <2>6, <2>9, <1>5 DEF SizeInv
<1> QED BY <1>8, <1>9, <1>10

\* One piece of a transfer: it begins in block op.blkno and does not leave it.
LEMMA SizeTransfer ==
  ASSUME FilesInv, SizeInv, op \in IoRec, NEW r \in IoRec, NEW n \in Nat, Transfer(n, r),
         r.ino = op.ino, r.end = op.end, r.write = op.write, r.pos = op.pos,
         op.blkno * B <= op.pos, op.pos + n <= op.blkno * B + B
  PROVE  SizeInv'
<1>1. PICK i \in Inodes : i = op.ino /\ ref[i] > 0
  BY BusyInode DEF IoRec, FilesInv
<1>2. PICK x \in Nat : x = op.blkno
  BY DEF IoRec
<1>3. PICK k \in Nat : k = din[i].blocks
  BY DEF FilesInv, CallInv, TypeOK, DiskInode
<1>4. /\ op.kind = "io" /\ op.pos \in Nat /\ x \in Int /\ k \in Int
      /\ op.pos <= k * B /\ panic # "index"
      /\ op.write \/ op.end <= din[i].size
  BY <1>1, <1>3 DEF IoRec, SizeInv, PosOK
<1>5. x * B \in Int /\ k * B \in Int /\ (x <= k <=> x * B <= k * B)
  BY <1>4, TimesB
<1>6. x <= k
  BY <1>2, <1>4, <1>5
<1>7. \A f \in Fds : IsOpen(f) => fd[f].ino \in Inodes
  BY FileCases DEF FilesInv, CallInv, TypeOK, IsOpen
<1>8. \A j \in Inodes : ~Opening(j)
  BY <1>4 DEF Opening
<1>9. CASE LoadPanic(i, x) # "none"
  <2>1. LoadPanic(i, x) # "index"
    BY <1>3, <1>6 DEF LoadPanic
  <2> QED BY <2>1, <1>1, <1>2, <1>9, SizeStop DEF Transfer
<1>10. CASE LoadPanic(i, x) = "none" /\ LoadFails(i, x)
  <2>1. /\ op' = [op EXCEPT !.at = "out"]
        /\ UNCHANGED <<din, dirty, ddin, ref, fd, panic>>
    BY <1>1, <1>2, <1>10 DEF Transfer, fileVars, vfsVars
  <2>2. /\ op'.kind = "io" /\ op'.ino = op.ino /\ op'.pos = op.pos
        /\ op'.end = op.end /\ op'.write = op.write
    BY <2>1 DEF IoRec
  <2>3. PosOK'
    BY <2>1, <2>2, <1>4 DEF SizeInv, PosOK, IsOpen
  <2> QED BY <2>1, <2>3, <1>4, <1>8, SizeFrame
<1>11. CASE LoadPanic(i, x) = "none" /\ ~LoadFails(i, x)
  <2>1. /\ LoadBlock(i, x) /\ UNCHANGED <<ddin, ref, fd, panic>>
        /\ op' = [r EXCEPT !.pos = @ + n, !.blkno = @ + 1]
    BY <1>1, <1>2, <1>11 DEF Transfer, vfsVars
  <2>2. /\ op'.kind = "io" /\ op'.ino = i /\ op'.pos = op.pos + n
        /\ op'.end = op.end /\ op'.write = op.write
    BY <2>1, <1>1, NextPiece
  <2>3. /\ FitsOK' /\ \A j \in Inodes : din'[j].size = din[j].size
        /\ x < din'[i].blocks /\ din'[i].blocks \in Nat
    BY <2>1, <1>1, <1>8, <1>11, FitsLoad DEF FilesInv
  <2>4. op'.pos <= din'[i].blocks * B
    <3>1. PICK y \in Int : y = din'[i].blocks /\ x + 1 <= y
      BY <2>3
    <3>2. x + 1 \in Int
      OBVIOUS
    <3>3. (x + 1) * B <= y * B /\ (x + 1) * B = x * B + B /\ y * B \in Int
          /\ (x + 1) * B \in Int
      BY <3>1, <3>2, <1>4, TimesB
    <3>4. op.pos + n <= x * B + B
      BY <1>2
    <3> QED BY <3>1, <3>3, <3>4, <2>2, <1>4, <1>5, BType
  <2>5. PosOK'
    BY <2>1, <2>2, <2>3, <2>4, <1>1, <1>4, <1>7 DEF SizeInv, PosOK, IsOpen
  <2> QED BY <2>1, <2>3, <2>5, <1>4 DEF SizeInv
<1> QED BY <1>9, <1>10, <1>11

\* The three kinds of pieces, as SizeTransfer and TightTransfer need them.
Piece(n, r) ==
  /\ Transfer(n, r)
  /\ r.ino = op.ino /\ r.end = op.end /\ r.write = op.write /\ r.pos = op.pos
  /\ op.blkno * B <= op.pos /\ op.pos + n <= op.blkno * B + B
  /\ op.pos < op.end /\ op.blkno * B < op.pos + n

LEMMA PieceCases ==
  ASSUME CallInv, IoHead \/ IoBlock \/ IoTail
  PROVE  op \in IoRec /\ \E n \in Nat, r \in IoRec : Piece(n, r)
<1>1. op \in IoRec /\ op.kind = "io" /\ PieceOK
  BY OpCases DEF IoHead, IoBlock, IoTail, Doing, CallInv, TypeOK
<1>2. /\ op.end \in Nat /\ op.pos \in Nat /\ op.nblks \in Nat /\ op.blkno \in Nat
      /\ op.offset \in Nat /\ op.pos <= op.end
  BY <1>1 DEF PieceOK, IoRec
<1>3. CASE IoHead
  <2> DEFINE m == IF op.nblks # 0 THEN op.nblks - 1 ELSE op.nblks
             r == [op EXCEPT !.at = "body", !.nblks = m]
             h == HeadSize
  <2>1. op.at = "head" /\ Transfer(h, r)
    <3>1. op.at = "head"
          /\ Transfer(h, [op EXCEPT !.at = "body", !.nblks = IF @ # 0 THEN @ - 1 ELSE @])
      BY <1>3 DEF IoHead
    <3>2. [op EXCEPT !.at = "body", !.nblks = IF @ # 0 THEN @ - 1 ELSE @] = r
      OBVIOUS
    <3> HIDE DEF r, h
    <3> QED BY <3>1, <3>2
  <2>2. m \in Nat
    BY <1>2
  <2> HIDE DEF m
  <2>3. /\ r \in IoRec /\ r.ino = op.ino /\ r.end = op.end /\ r.write = op.write
        /\ r.pos = op.pos
    BY <2>2, <1>1 DEF IoRec
  <2>4. /\ op.pos = op.offset /\ op.pos < op.end /\ op.offset % B # 0
        /\ op.blkno = op.offset \div B /\ op.nblks = (op.end \div B) - op.blkno
    BY <2>1, <1>1 DEF PieceOK
  <2>5. h = IF op.nblks # 0 THEN B - (op.offset % B) ELSE op.end - op.offset
    BY DEF HeadSize, B
  <2> HIDE DEF r, h
  <2>6. h \in Nat /\ h > 0 /\ op.offset + h <= op.blkno * B + B /\ op.blkno * B \in Int
    BY <2>4, <2>5, <1>2, HeadPiece
  <2>7. op.blkno * B <= op.offset
    BY <2>4, <1>2, DivBound
  <2>9. op.blkno * B < op.offset + h
    BY <2>6, <2>7, <1>2
  <2>8. Piece(h, r)
    BY <2>1, <2>3, <2>4, <2>6, <2>7, <2>9 DEF Piece
  <2> QED BY <2>3, <2>6, <2>8, <1>1
<1>4. CASE IoBlock
  <2> DEFINE m == op.nblks - 1
             r == [op EXCEPT !.nblks = m]
  <2>1. op.at = "body" /\ op.nblks > 0 /\ Transfer(B, r)
    BY <1>4 DEF IoBlock, B
  <2>2. m \in Nat
    BY <2>1, <1>2
  <2> HIDE DEF m
  <2>3. /\ r \in IoRec /\ r.ino = op.ino /\ r.end = op.end /\ r.write = op.write
        /\ r.pos = op.pos
    BY <2>2, <1>1 DEF IoRec
  <2> HIDE DEF r
  <2>4. /\ op.blkno * B = op.pos /\ op.nblks * B <= op.end - op.pos
        /\ op.end - op.pos < op.nblks * B + B
    BY <2>1, <1>1 DEF PieceOK, Rest
  <2>5. op.pos + B <= op.end
    BY <2>1, <2>4, <1>2, BodyPiece
  <2>6. Piece(B, r)
    BY <2>1, <2>3, <2>4, <2>5, <1>2, BType DEF Piece
  <2> QED BY <2>3, <2>6, <1>1, BType
<1>5. CASE IoTail
  <2> DEFINE n == op.end - op.pos
             r == [op EXCEPT !.at = "out"]
  <2>1. /\ op.at = "body" /\ op.nblks = 0 /\ op.pos < op.end /\ Transfer(n, r)
    BY <1>5 DEF IoTail
  <2>2. n \in Nat /\ op.pos + n = op.end
    BY <1>2
  <2>3. /\ r \in IoRec /\ r.ino = op.ino /\ r.end = op.end /\ r.write = op.write
        /\ r.pos = op.pos
    BY <1>1 DEF IoRec
  <2>4. op.blkno * B = op.pos /\ op.end - op.pos < op.nblks * B + B
    BY <2>1, <1>1, <1>2 DEF PieceOK, Rest
  <2>5. op.nblks * B = 0
    BY <2>1, BType
  <2>6. op.pos + n <= op.blkno * B + B
    <3>1. op.end - op.pos < B /\ B \in Int
      BY <2>4, <2>5, BType
    <3>2. op.end <= op.pos + B
      BY <3>1, <1>2
    <3> QED BY <3>2, <2>2, <2>4
  <2>8. op.blkno * B < op.pos + n
    BY <2>1, <2>2, <2>4, <1>2
  <2> HIDE DEF n, r
  <2>7. Piece(n, r)
    BY <2>1, <2>3, <2>4, <2>6, <2>8, <1>2 DEF Piece
  <2> QED BY <2>2, <2>3, <2>7, <1>1
<1> QED BY <1>3, <1>4, <1>5

\* The end of a transfer: the file grows to the position reached.
LEMMA SizeOut == ASSUME FilesInv, SizeInv, IoOut PROVE SizeInv'
<1>1. op.kind = "io" /\ op \in IoRec
  BY OpCases DEF IoOut, Doing, FilesInv, CallInv, TypeOK
<1>2. PICK i \in Inodes : i = op.ino /\ ref[i] > 0
  BY <1>1, BusyInode DEF FilesInv
<1>3. /\ op.pos \in Nat /\ op.offset \in Nat /\ op.fd \in Fds
      /\ din \in [Inodes -> DiskInode] /\ fd \in [Fds -> File]
      /\ dirty \in [Inodes -> BOOLEAN]
      /\ fd[op.fd] # NoFile /\ fd[op.fd].ino = i /\ fd[op.fd].pos = op.offset
      /\ panic # "index" /\ op.pos <= din[i].blocks * B
  BY <1>1, <1>2
     DEF FilesInv, CallInv, TypeOK, CallOK, IsOpen, IoRec, SizeInv, PosOK
<1>4. /\ op' = Idle /\ UNCHANGED <<ddin, ref, panic>>
      /\ fd' = [fd EXCEPT ![op.fd].pos = @ + (op.pos - op.offset)]
  BY DEF IoOut
<1>5. \A j \in Inodes : ~Opening(j)
  BY <1>1 DEF Opening
<1>6. /\ fd'[op.fd] = [used |-> TRUE, ino |-> i, pos |-> op.pos]
      /\ \A f \in Fds \ {op.fd} : fd'[f] = fd[f]
  <2>1. fd[op.fd].pos + (op.pos - op.offset) = op.pos
    BY <1>3
  <2>2. [fd[op.fd] EXCEPT !.pos = op.pos] = [used |-> TRUE, ino |-> i, pos |-> op.pos]
    BY <1>3, MoveFile
  <2>3. fd'[op.fd] = [fd[op.fd] EXCEPT !.pos = op.pos]
    BY <2>1, <1>3, <1>4
  <2> QED BY <2>2, <2>3, <1>3, <1>4
<1>7. /\ \A j \in Inodes \ {i} : din'[j] = din[j] /\ dirty'[j] = dirty[j]
      /\ din[i].size <= din'[i].size /\ op.pos <= din'[i].size
      /\ din'[i].size \in Nat /\ din[i].size \in Nat
      /\ dirty[i] => dirty'[i]
      /\ Fits(din'[i])
  <2>1. CASE op.pos > din[i].size
    <3>1. din' = [din EXCEPT ![i].size = op.pos] /\ dirty' = [dirty EXCEPT ![i] = TRUE]
      BY <2>1, <1>2 DEF IoOut
    <3>2. /\ \A j \in Inodes \ {i} : din'[j] = din[j]
          /\ din'[i].size = op.pos /\ din'[i].blocks = din[i].blocks /\ din[i].size \in Nat
      BY <3>1, <1>3 DEF DiskInode
    <3>3. dirty'[i] /\ \A j \in Inodes \ {i} : dirty'[j] = dirty[j]
      BY <3>1, <1>3
    <3> QED BY <3>2, <3>3, <2>1, <1>3 DEF Fits
  <2>2. CASE ~(op.pos > din[i].size)
    <3>1. UNCHANGED <<din, dirty>>
      BY <2>2, <1>2 DEF IoOut
    <3>2. Inode(i) = din[i]
      BY <1>2 DEF Inode
    <3>3. Fits(din[i])
      BY <3>2, <1>5 DEF SizeInv, FitsOK, Opening
    <3>4. din[i].size \in Nat
      BY <1>3 DEF DiskInode
    <3> QED BY <3>1, <3>3, <3>4, <2>2, <1>3
  <2> QED BY <2>1, <2>2
<1>8. FitsOK'
  BY <1>2, <1>4, <1>5, <1>7, FitsStep
<1>9. ASSUME NEW f \in Fds, IsOpen(f)' PROVE fd'[f].pos <= din'[fd'[f].ino].size
  <2>1. CASE f = op.fd
    BY <2>1, <1>6, <1>7
  <2>2. CASE f # op.fd
    <3>1. IsOpen(f) /\ fd'[f] = fd[f] /\ fd[f].ino \in Inodes /\ fd[f].pos \in Nat
      BY <2>2, <1>3, <1>6, <1>9, FileCases DEF IsOpen
    <3>2. fd[f].pos <= din[fd[f].ino].size
      BY <3>1 DEF SizeInv, PosOK
    <3>3. CASE fd[f].ino = i
      BY <3>1, <3>2, <3>3, <1>7
    <3>4. CASE fd[f].ino # i
      BY <3>1, <3>2, <3>4, <1>7
    <3> QED BY <3>3, <3>4
  <2> QED BY <2>1, <2>2
<1>10. PosOK'
  BY <1>4, <1>9 DEF PosOK, Idle
<1> QED BY <1>3, <1>4, <1>8, <1>10 DEF SizeInv

LEMMA SizeNext ==
  ASSUME ~TruncShared, FilesInv, SizeInv, FilesInv', [Next]_vars PROVE SizeInv'
<1>1. CASE \E f \in Fds, i \in Inodes, trunc, append \in BOOLEAN :
             Open(f, i, trunc, append)
  BY <1>1, SizeOpen DEF FilesInv
<1>2. CASE \/ \E i \in Inodes : OpenExcl(i)
           \/ \E f, g \in Fds : Dup(f, g)
           \/ \E f \in Fds, pos \in Seeks : Seek(f, pos)
  BY <1>2, SizeDescriptor
<1>3. CASE \E f \in Fds : Close(f) \/ Fsync(f)
  BY <1>3, SizeClose
<1>4. CASE \E f \in Fds, len \in Lens, write \in BOOLEAN : StartIo(f, len, write)
  BY <1>4, SizeStart
<1>5. CASE TruncGrow \/ TruncShrink \/ TruncDone
  BY <1>5, SizeTrunc DEF FilesInv
<1>6. CASE IoHead \/ IoBlock \/ IoTail
  <2>1. PICK n \in Nat, r \in IoRec : op \in IoRec /\ Piece(n, r)
    BY <1>6, PieceCases DEF FilesInv
  <2> QED BY <2>1, SizeTransfer DEF Piece
<1>7. CASE IoOut
  BY <1>7, SizeOut
<1>8. CASE UNCHANGED vars
  <2>1. PosOK'
    BY <1>8 DEF vars, SizeInv, PosOK, IsOpen
  <2> QED BY <2>1, <1>8, SizeFrame DEF vars, SizeInv, Opening
<1> QED BY <1>1, <1>2, <1>3, <1>4, <1>5, <1>6, <1>7, <1>8 DEF Next

----------------------------------------------------------------------------
(* Blocks to spare: only where a resizing was cut short *)

LEMMA TightInit == ASSUME Init PROVE TightInv
<1>1. Tight(Empty)
  <2>1. Empty.blocks = 0 /\ Empty.size = 0
    BY DEF Empty
  <2> QED BY <2>1, BType DEF Tight
<1>2. \A j \in Inodes : Inode(j) = Empty /\ ddin[j] = Empty
  BY DEF Inode, Init
<1>3. \A j \in Inodes \ cut : TightAt(j)
  BY <1>1, <1>2 DEF TightAt
<1> QED BY <1>3 DEF TightInv, SizePanic, Init

\* Between calls the sizes are exact.
LEMMA TightIdle ==
  ASSUME TightInv, op = Idle, NEW j \in Inodes \ cut
  PROVE  Tight(Inode(j))
<1>1. TightAt(j) /\ op.kind = "idle"
  BY DEF TightInv, Idle
<1> QED BY <1>1 DEF TightAt, Moving

\* Steps between calls.
LEMMA TightFrame ==
  ASSUME UNCHANGED cut, SizePanic',
         \A j \in Inodes \ cut : Tight(Inode(j)'),
         \A j \in Inodes \ cut : ref'[j] > 0 /\ ~dirty'[j] => Tight(ddin'[j])
  PROVE  TightInv'
<1>1. \A j \in Inodes \ cut : TightAt(j)'
  BY DEF TightAt, Tight
<1> QED BY <1>1 DEF TightInv

\* Steps of a call on one file.
LEMMA TightStep ==
  ASSUME TightInv, op.kind # "idle", NEW i \in Inodes, i = op.ino,
         UNCHANGED <<ddin, ref>>, panic' # "size",
         \A j \in Inodes \ {i} : din'[j] = din[j] /\ dirty'[j] = dirty[j],
         \A j \in Inodes \ {i} : j \in cut => j \in cut',
         i \notin cut' => TightAt(i)'
  PROVE  TightInv'
<1>1. ASSUME NEW j \in Inodes \ cut', j # i PROVE TightAt(j)'
  <2>1. TightAt(j) /\ ~Moving(j)
    BY <1>1 DEF TightInv, Moving
  <2>2. Inode(j)' = Inode(j)
    BY <1>1 DEF Inode
  <2>3. Tight(Inode(j)')
    BY <2>1, <2>2 DEF TightAt
  <2>4. ref'[j] > 0 /\ ~dirty'[j] => Tight(ddin'[j])
    BY <2>1, <1>1 DEF TightAt
  <2> QED BY <2>3, <2>4 DEF TightAt, Tight
<1>2. SizePanic'
  BY DEF SizePanic
<1> QED BY <1>1, <1>2 DEF TightInv

\* Steps that leave the inodes alone.
LEMMA TightSame ==
  ASSUME TightInv, UNCHANGED <<din, dirty, ddin, cut>>, panic' # "size" \/ UNCHANGED panic,
         \A j \in Inodes : ref'[j] > 0 <=> ref[j] > 0,
         \A j \in Inodes : Moving(j) => Moving(j)'
  PROVE  TightInv'
<1>1. \A j \in Inodes : Inode(j)' = Inode(j)
  BY DEF Inode
<1>2. \A j \in Inodes \ cut : TightAt(j)'
  <2> SUFFICES ASSUME NEW j \in Inodes \ cut PROVE TightAt(j)'
    OBVIOUS
  <2>1. TightAt(j)
    BY DEF TightInv
  <2>2. Tight(Inode(j)') \/ Moving(j)'
    BY <2>1, <1>1 DEF TightAt
  <2>3. ref'[j] > 0 /\ ~dirty'[j] => Tight(ddin'[j])
    BY <2>1 DEF TightAt
  <2> QED BY <2>2, <2>3 DEF TightAt, Tight
<1>3. SizePanic'
  BY DEF TightInv, SizePanic
<1> QED BY <1>2, <1>3 DEF TightInv

LEMMA TightStop ==
  ASSUME TightInv, NEW why, why # "size", Stop(why) PROVE TightInv'
<1>1. UNCHANGED <<din, dirty, ddin, ref, cut, op>> /\ panic' # "size"
  BY DEF Stop, fileVars, vfsVars
<1>2. \A j \in Inodes : Moving(j) => Moving(j)'
  BY <1>1 DEF Moving
<1> QED BY <1>1, <1>2, TightSame

\* A load stops the kernel with assertions of the block layer only.
LEMMA TightLoadStop ==
  ASSUME TightInv, NEW i, NEW x, Stop(LoadPanic(i, x)) PROVE TightInv'
<1>1. LoadPanic(i, x) # "size"
  BY PanicTypes
<1> QED BY <1>1, TightStop

LEMMA TightLoadInode ==
  ASSUME FilesInv, TightInv, op = Idle, NEW i \in Inodes, LoadInode(i),
         UNCHANGED <<ddin, entries, free, unused>>
  PROVE  /\ \A j \in Inodes \ cut : Tight(Inode(j)')
         /\ \A j \in Inodes \ cut : ref'[j] > 0 /\ ~dirty'[j] => Tight(ddin'[j])
         /\ Inode(i)' = din'[i]
<1>1. /\ ref \in [Inodes -> Nat]
      /\ \A j \in Inodes : ref'[j] = IF j = i THEN ref[j] + 1 ELSE ref[j]
      /\ \A j \in Inodes : din'[j] = IF j = i /\ ref[i] = 0 THEN ddin[j] ELSE din[j]
      /\ \A j \in Inodes : dirty'[j] = IF j = i /\ ref[i] = 0 THEN FALSE ELSE dirty[j]
  BY CallParts, LoadInodeTypes DEF UserPart, FilesInv
<1>2. \A j \in Inodes : Inode(j)' = Inode(j)
  BY <1>1 DEF Inode
<1>3. \A j \in Inodes \ cut : Tight(Inode(j))
  BY TightIdle
<1>4. ASSUME NEW j \in Inodes \ cut, ref'[j] > 0, ~dirty'[j] PROVE Tight(ddin'[j])
  <2>1. CASE ref[j] = 0
    <3>1. Inode(j) = ddin[j]
      BY <2>1 DEF Inode
    <3>2. Tight(Inode(j))
      BY <1>3
    <3> QED BY <3>1, <3>2
  <2>2. CASE ref[j] > 0
    <3>1. ~(j = i /\ ref[i] = 0)
      BY <2>2
    <3>2. ~dirty[j]
      BY <3>1, <1>1, <1>4, Zenon
    <3> QED BY <3>2, <2>2 DEF TightInv, TightAt
  <2> QED BY <2>1, <2>2, <1>1
<1>5. Inode(i)' = din'[i]
  BY <1>1 DEF Inode
<1>6. \A j \in Inodes \ cut : Tight(Inode(j)')
  BY <1>2, <1>3
<1> QED BY <1>4, <1>5, <1>6

\* sfs_truncfile's assertion fails only for a file whose blocks were left over.
LEMMA TightOpen ==
  ASSUME FilesInv, FilesInv', TightInv, NEW f \in Fds, NEW i \in Inodes,
         NEW trunc \in BOOLEAN, NEW append \in BOOLEAN, Open(f, i, trunc, append)
  PROVE  TightInv'
<1>1. CASE ref[i] + 1 >= MAX_INODE_COUNT
  BY <1>1, TightStop DEF Open
<1>2. CASE ~(ref[i] + 1 >= MAX_INODE_COUNT)
  <2>1. /\ LoadInode(i) /\ UNCHANGED <<ddin, entries, free, unused, cut>>
        /\ op = Idle /\ panic = "none"
        /\ panic' = panic \/ (panic' = "size" /\ din'[i].size = 0 /\ din'[i].blocks # 0)
    BY <1>2 DEF Open, Ready
  <2>2. /\ \A j \in Inodes \ cut : Tight(Inode(j)')
        /\ \A j \in Inodes \ cut : ref'[j] > 0 /\ ~dirty'[j] => Tight(ddin'[j])
        /\ Inode(i)' = din'[i]
    BY <2>1, TightLoadInode
  <2>3. SizePanic'
    <3> SUFFICES ASSUME panic' = "size" PROVE i \in cut /\ din'[i].size = 0 /\ din'[i].blocks > 0
      BY <2>1 DEF SizePanic
    <3>1. PICK k \in Nat : k = din'[i].blocks
      BY DEF FilesInv, CallInv, TypeOK, DiskInode
    <3>2. din'[i].size = 0 /\ k # 0
      BY <2>1, <3>1
    <3>3. k * B >= B /\ k * B \in Int
      <4>1. 1 <= k /\ k \in Int /\ 1 \in Int
        BY <3>1, <3>2
      <4>2. 1 * B = B /\ B \in Int
        BY BType
      <4>3. 1 * B <= k * B /\ k * B \in Int
        BY <4>1, TimesB
      <4> QED BY <4>2, <4>3
    <3>4. ~Tight(din'[i])
      BY <3>1, <3>2, <3>3, BType DEF Tight
    <3>5. i \in cut
      BY <3>4, <2>2
    <3> QED BY <3>1, <3>2, <3>5
  <2> QED BY <2>1, <2>2, <2>3, TightFrame
<1> QED BY <1>1, <1>2

LEMMA TightClose ==
  ASSUME FilesInv, TightInv, NEW f \in Fds, Close(f) \/ Fsync(f)
  PROVE  TightInv'
<1>1. PICK i \in Inodes : /\ i = fd[f].ino /\ open[i] \in Nat /\ open[i] > 0
                          /\ ref[i] \in Nat /\ ref[i] > 0
  BY OpenCounted DEF Close, Fsync, IsOpen, FilesInv
<1>2. /\ ref \in [Inodes -> Nat] /\ dirty \in [Inodes -> BOOLEAN]
      /\ ddin \in [Inodes -> DiskInode] /\ din \in [Inodes -> DiskInode]
  BY DEF FilesInv, CallInv, TypeOK
<1>3. CASE Stop("ref_count")
  BY <1>3, TightStop
<1>4. CASE ~Stop("ref_count")
  <2>1. /\ \/ /\ ref' = [ref EXCEPT ![i] = @ - 1]
              /\ (IF open[i] = 1 THEN Sync(i) ELSE UNCHANGED <<ddin, dirty>>)
              /\ din' = IF ref[i] = 1 THEN [din EXCEPT ![i] = Empty] ELSE din
           \/ Sync(i) /\ UNCHANGED <<din, ref>>
        /\ UNCHANGED <<cut, panic>> /\ op = Idle /\ panic = "none"
    BY <1>1, <1>4 DEF Close, Fsync, Ready
  <2>2. /\ \A j \in Inodes \ {i} : ref'[j] = ref[j] /\ din'[j] = din[j]
        /\ ref'[i] > 0 => din'[i] = din[i]
        /\ ref'[i] = 0 => open[i] = 1
        /\ ref'[i] \in Nat
    <3>1. ref[i] >= open[i]
      BY DEF FilesInv, CountsOK
    <3> QED BY <3>1, <2>1, <1>1, <1>2
  <2>3. /\ \A j \in Inodes \ {i} : ddin'[j] = ddin[j] /\ dirty'[j] = dirty[j]
        /\ \/ ddin'[i] = ddin[i] /\ dirty'[i] = dirty[i] /\ ref'[i] > 0
           \/ ddin'[i] = din[i] /\ dirty[i]
           \/ ddin'[i] = ddin[i] /\ ~dirty[i]
    BY <2>1, <2>2, <1>1, <1>2 DEF Sync
  <2>4. \A j \in Inodes \ cut : Tight(Inode(j))
    BY <2>1, TightIdle
  <2>5. i \notin cut => Tight(din[i]) /\ (~dirty[i] => Tight(ddin[i]))
    <3>1. Inode(i) = din[i]
      BY <1>1 DEF Inode
    <3> QED BY <3>1, <2>4, <1>1 DEF TightInv, TightAt
  <2>6. i \notin cut =>
           Tight(Inode(i)') /\ (ref'[i] > 0 /\ ~dirty'[i] => Tight(ddin'[i]))
    BY <2>2, <2>3, <2>5 DEF Inode
  <2>7. \A j \in Inodes \ {i} : Inode(j)' = Inode(j)
    BY <2>2, <2>3 DEF Inode
  <2>8. \A j \in Inodes \ cut : Tight(Inode(j)')
    BY <2>4, <2>6, <2>7
  <2>9. \A j \in Inodes \ cut : ref'[j] > 0 /\ ~dirty'[j] => Tight(ddin'[j])
    BY <2>2, <2>3, <2>6 DEF TightInv, TightAt
  <2>10. SizePanic'
    BY <2>1 DEF SizePanic
  <2> QED BY <2>1, <2>8, <2>9, <2>10, TightFrame
<1> QED BY <1>3, <1>4

\* A reference, a duplicate, a position, the start of a resizing or a transfer.
LEMMA TightDescriptor ==
  ASSUME FilesInv, TightInv,
         \/ \E i \in Inodes : OpenExcl(i)
         \/ \E f, g \in Fds : Dup(f, g)
         \/ \E f \in Fds, pos \in Seeks : Seek(f, pos)
         \/ \E f \in Fds, len \in Lens, write \in BOOLEAN : StartIo(f, len, write)
  PROVE  TightInv'
<1>0. op = Idle /\ panic = "none" /\ (\A j \in Inodes : ~Moving(j))
      /\ ref \in [Inodes -> Nat]
  BY DEF OpenExcl, Dup, Seek, StartIo, Ready, Moving, Idle, FilesInv, CallInv, TypeOK
<1>1. ASSUME NEW i \in Inodes, OpenExcl(i) PROVE TightInv'
  <2>1. LoadInode(i) /\ UNCHANGED <<ddin, entries, free, unused, cut, panic>>
    BY <1>1 DEF OpenExcl
  <2>2. SizePanic'
    BY <2>1, <1>0 DEF SizePanic
  <2>3. /\ \A j \in Inodes \ cut : Tight(Inode(j)')
        /\ \A j \in Inodes \ cut : ref'[j] > 0 /\ ~dirty'[j] => Tight(ddin'[j])
    BY <2>1, <1>0, TightLoadInode
  <2> QED BY <2>1, <2>2, <2>3, TightFrame
<1>2. ASSUME NEW f \in Fds, NEW g \in Fds, Dup(f, g) PROVE TightInv'
  <2>1. PICK i \in Inodes : i = fd[f].ino /\ ref[i] \in Nat /\ ref[i] > 0
    BY <1>2, OpenCounted DEF Dup, IsOpen, FilesInv
  <2>2. ref' = [ref EXCEPT ![i] = @ + 1] /\ UNCHANGED <<din, dirty, ddin, cut, panic>>
    BY <2>1, <1>2 DEF Dup, fileVars
  <2>3. \A j \in Inodes : ref'[j] > 0 <=> ref[j] > 0
    BY <2>1, <2>2, <1>0
  <2> QED BY <2>2, <2>3, <1>0, TightSame
<1>3. ASSUME \/ \E f \in Fds, pos \in Seeks : Seek(f, pos)
             \/ \E f \in Fds, len \in Lens, write \in BOOLEAN : StartIo(f, len, write)
      PROVE  TightInv'
  <2>1. Stop("ref_count") \/ UNCHANGED <<fileVars, vfsVars, panic>>
    BY <1>3 DEF Seek, StartIo
  <2>2. CASE UNCHANGED <<fileVars, vfsVars, panic>>
    BY <2>2, <1>0, TightSame DEF fileVars, vfsVars
  <2> QED BY <2>1, <2>2, TightStop
<1> QED BY <1>1, <1>2, <1>3

LEMMA TightTrunc ==
  ASSUME FilesInv, TightInv, TruncGrow \/ TruncShrink \/ TruncDone
  PROVE  TightInv'
<1>1. op.kind = "trunc" /\ op.kind # "idle" /\ op \in TruncRec /\ panic = "none"
  BY OpCases DEF TruncGrow, TruncShrink, TruncDone, Doing, FilesInv, CallInv, TypeOK
<1>2. PICK i \in Inodes : i = op.ino /\ ref[i] > 0
  BY <1>1, BusyInode DEF FilesInv
<1>3. PICK x \in Nat : x = din[i].blocks
  BY DEF FilesInv, CallInv, TypeOK, DiskInode
<1>4. din \in [Inodes -> DiskInode] /\ dirty \in [Inodes -> BOOLEAN]
  BY DEF FilesInv, CallInv, TypeOK
<1>5. i \notin cut => (ref[i] > 0 /\ ~dirty[i] => Tight(ddin[i]))
  BY DEF TightInv, TightAt
<1>6. ASSUME UNCHANGED <<ddin, ref, cut, op, panic>>, dirty[i] => dirty'[i],
             \A j \in Inodes \ {i} : din'[j] = din[j] /\ dirty'[j] = dirty[j]
      PROVE  TightInv'
  <2>1. Moving(i)'
    BY <1>1, <1>2, <1>6 DEF Moving
  <2>2. i \notin cut => (ref'[i] > 0 /\ ~dirty'[i] => Tight(ddin'[i]))
    BY <1>5, <1>6
  <2>3. i \notin cut => TightAt(i)'
    BY <2>1, <2>2 DEF TightAt, Tight
  <2> QED BY <2>3, <1>1, <1>2, <1>6, TightStep
<1>7. CASE TruncGrow
  <2>1. CASE LoadPanic(i, x) # "none"
    BY <2>1, <1>2, <1>3, <1>7, TightLoadStop DEF TruncGrow
  <2>2. CASE LoadPanic(i, x) = "none" /\ LoadFails(i, x)
    <3>1. cut' = cut \union {i} /\ UNCHANGED <<din, dirty, ddin, ref, panic>>
      BY <2>2, <1>2, <1>3, <1>7 DEF TruncGrow, fileVars
    <3> QED BY <3>1, <1>1, <1>2, TightStep
  <2>3. CASE LoadPanic(i, x) = "none" /\ ~LoadFails(i, x)
    <3>1. LoadBlock(i, x) /\ UNCHANGED <<ddin, ref, cut, op, panic>>
      BY <2>3, <1>2, <1>3, <1>7 DEF TruncGrow, vfsVars
    <3>2. OnlyFile(i) /\ Loaded(i, x)
      BY <3>1, <2>3, LoadEffect DEF FilesInv, CallInv
    <3>3. dirty[i] => dirty'[i]
      BY <3>2, Zenon DEF Loaded, OldBlock, NewDirect, NewEntry, NewIndirect
    <3> QED BY <3>1, <3>2, <3>3, <1>6 DEF OnlyFile
  <2> QED BY <2>1, <2>2, <2>3
<1>8. CASE TruncShrink
  <2>1. x > 0
    BY <1>1, <1>2, <1>3, <1>8, RoundUp DEF TruncShrink, TruncRec
  <2>2. CASE Mapped(i, x - 1) \in free
    BY <2>2, <1>2, <1>3, <1>8, TightStop DEF TruncShrink
  <2>3. CASE Mapped(i, x - 1) \notin free
    <3>1. FreeLast(i) /\ UNCHANGED <<ddin, ref, cut, op, panic>>
      BY <2>3, <1>2, <1>3, <1>8 DEF TruncShrink, vfsVars
    <3>2. OnlyFile(i) /\ Freed(i, x - 1)
      BY <3>1, <2>1, <2>3, <1>3, FreeEffect DEF FilesInv, CallInv
    <3> QED BY <3>1, <3>2, <1>6 DEF OnlyFile, Freed
  <2> QED BY <2>2, <2>3
<1>9. CASE TruncDone
  <2>1. /\ din' = [din EXCEPT ![i].size = op.len]
        /\ x = RoundUpDiv(op.len, SFS_BLKSIZE)
        /\ dirty' = [dirty EXCEPT ![i] = TRUE] /\ cut' = cut \ {i}
        /\ UNCHANGED <<ddin, ref, panic>>
    BY <1>2, <1>3, <1>9 DEF TruncDone
  <2>2. /\ \A j \in Inodes \ {i} : din'[j] = din[j] /\ dirty'[j] = dirty[j]
        /\ din'[i].size = op.len /\ din'[i].blocks = x /\ dirty'[i]
    BY <2>1, <1>3, <1>4 DEF DiskInode
  <2>3. Tight(din'[i])
    BY <2>1, <2>2, <1>1, RoundUp DEF Tight, TruncRec
  <2>4. Inode(i)' = din'[i]
    BY <2>1, <1>2 DEF Inode
  <2>5. TightAt(i)'
    BY <2>2, <2>3, <2>4 DEF TightAt
  <2> QED BY <2>1, <2>2, <2>5, <1>1, <1>2, TightStep
<1> QED BY <1>7, <1>8, <1>9

\* A transfer adds a block only where it moves bytes to.
LEMMA TightTransfer ==
  ASSUME FilesInv, TightInv, op \in IoRec, panic = "none", NEW n \in Nat, NEW r \in IoRec,
         Piece(n, r)
  PROVE  TightInv'
<1>1. PICK i \in Inodes : i = op.ino /\ ref[i] > 0
  BY BusyInode DEF IoRec, FilesInv
<1>2. PICK x \in Nat : x = op.blkno
  BY DEF IoRec
<1>3. PICK k \in Nat : k = din[i].blocks
  BY DEF FilesInv, CallInv, TypeOK, DiskInode
<1>4. /\ op.kind = "io" /\ op.kind # "idle" /\ op.pos \in Nat /\ Transfer(n, r)
      /\ r.ino = i /\ r.pos = op.pos /\ x * B < op.pos + n
  BY <1>1, <1>2 DEF IoRec, Piece
<1>5. i \notin cut => TightAt(i)
  BY DEF TightInv
<1>6. x * B \in Int /\ k * B \in Int /\ (x + 1) * B = x * B + B
  <2>1. x \in Int /\ k \in Int
    OBVIOUS
  <2> QED BY <2>1, TimesB
<1>7. CASE LoadPanic(i, x) # "none"
  BY <1>1, <1>2, <1>4, <1>7, TightLoadStop DEF Transfer
<1>8. CASE LoadPanic(i, x) = "none" /\ LoadFails(i, x)
  <2>1. /\ op' = [op EXCEPT !.at = "out"]
        /\ UNCHANGED <<din, dirty, ddin, ref, cut, panic>>
    BY <1>1, <1>2, <1>4, <1>8 DEF Transfer, fileVars, vfsVars
  <2>2. op'.kind = op.kind /\ op'.ino = op.ino /\ op'.pos = op.pos
    BY <2>1 DEF IoRec
  <2>3. \A j \in Inodes : Moving(j) => Moving(j)'
    BY <2>1, <2>2 DEF Moving
  <2> QED BY <2>1, <2>3, TightSame
<1>9. CASE LoadPanic(i, x) = "none" /\ ~LoadFails(i, x)
  <2>1. /\ LoadBlock(i, x) /\ UNCHANGED <<ddin, ref, cut, panic>>
        /\ op' = [r EXCEPT !.pos = @ + n, !.blkno = @ + 1]
    BY <1>1, <1>2, <1>4, <1>9 DEF Transfer, vfsVars
  <2>2. op'.kind = "io" /\ op'.ino = i /\ op'.pos = op.pos + n
    BY <2>1, <1>4, NextPiece
  <2>3. /\ OnlyFile(i) /\ Loaded(i, x)
        /\ din'[i].blocks = IF x = k THEN x + 1 ELSE k
    BY <2>1, <1>3, <1>9, LoadEffect DEF FilesInv, CallInv
  <2>4. dirty[i] => dirty'[i]
    BY <2>3, Zenon DEF Loaded, OldBlock, NewDirect, NewEntry, NewIndirect
  <2>5. Inode(i)' = din'[i] /\ Inode(i) = din[i]
    BY <2>1, <1>1 DEF Inode
  <2>6. ASSUME i \notin cut PROVE Tight(Inode(i)') \/ Moving(i)'
    <3>1. CASE x = k
      <4>1. din'[i].blocks * B < op'.pos + B
        BY <3>1, <2>2, <2>3, <1>4, <1>6, BType
      <4> QED BY <4>1, <2>2 DEF Moving
    <3>2. CASE x # k
      <4>1. din'[i].blocks = k /\ din'[i].size = din[i].size
        BY <3>2, <2>3 DEF OnlyFile
      <4>2. Tight(din[i]) \/ k * B < op.pos + B
        BY <2>5, <2>6, <1>3, <1>4, <1>5 DEF TightAt, Moving
      <4>3. CASE Tight(din[i])
        BY <4>1, <4>3, <2>5, <1>3 DEF Tight
      <4>4. CASE k * B < op.pos + B
        <5>1. din'[i].blocks * B < op'.pos + B
          BY <4>1, <4>4, <2>2, <1>4, <1>6, BType
        <5> QED BY <5>1, <2>2 DEF Moving
      <4> QED BY <4>2, <4>3, <4>4
    <3> QED BY <3>1, <3>2
  <2>7. i \notin cut => (ref'[i] > 0 /\ ~dirty'[i] => Tight(ddin'[i]))
    BY <2>1, <2>4, <1>5 DEF TightAt
  <2>8. i \notin cut => TightAt(i)'
    BY <2>6, <2>7 DEF TightAt, Tight
  <2> QED BY <2>1, <2>3, <2>8, <1>1, <1>4, TightStep DEF OnlyFile
<1> QED BY <1>7, <1>8, <1>9

\* The size catches up with the blocks.
LEMMA TightOut == ASSUME FilesInv, TightInv, IoOut PROVE TightInv'
<1>1. op.kind = "io" /\ op.kind # "idle" /\ op \in IoRec /\ panic = "none"
  BY OpCases DEF IoOut, Doing, FilesInv, CallInv, TypeOK
<1>2. PICK i \in Inodes : i = op.ino /\ ref[i] > 0
  BY <1>1, BusyInode DEF FilesInv
<1>3. PICK k \in Nat : k = din[i].blocks
  BY DEF FilesInv, CallInv, TypeOK, DiskInode
<1>4. /\ op.pos \in Nat /\ din \in [Inodes -> DiskInode] /\ dirty \in [Inodes -> BOOLEAN]
      /\ din[i].size \in Nat
  BY <1>1 DEF FilesInv, CallInv, TypeOK, IoRec, DiskInode
<1>5. UNCHANGED <<ddin, ref, cut, panic>>
  BY DEF IoOut
<1>6. k * B \in Int
  <2>1. k \in Int
    OBVIOUS
  <2> QED BY <2>1, TimesB
<1>7. ASSUME i \notin cut PROVE k * B < din[i].size + B \/ k * B < op.pos + B
  <2>1. TightAt(i) /\ Inode(i) = din[i]
    BY <1>2, <1>7 DEF TightInv, Inode
  <2> QED BY <2>1, <1>1, <1>3 DEF TightAt, Moving, Tight
<1>8. /\ \A j \in Inodes \ {i} : din'[j] = din[j] /\ dirty'[j] = dirty[j]
      /\ din'[i].blocks = k /\ din'[i].size = (IF op.pos > din[i].size THEN op.pos
                                               ELSE din[i].size)
      /\ dirty[i] => dirty'[i]
  <2>1. CASE op.pos > din[i].size
    <3>1. din' = [din EXCEPT ![i].size = op.pos] /\ dirty' = [dirty EXCEPT ![i] = TRUE]
      BY <2>1, <1>2 DEF IoOut
    <3>2. /\ \A j \in Inodes \ {i} : din'[j] = din[j] /\ dirty'[j] = dirty[j]
          /\ din'[i].size = op.pos /\ din'[i].blocks = k /\ dirty'[i]
      BY <3>1, <1>3, <1>4 DEF DiskInode
    <3> QED BY <3>2, <2>1
  <2>2. CASE ~(op.pos > din[i].size)
    BY <2>2, <1>2, <1>3 DEF IoOut
  <2> QED BY <2>1, <2>2
<1>9. ASSUME i \notin cut PROVE TightAt(i)'
  <2>1. k * B < din'[i].size + B
    BY <1>4, <1>6, <1>7, <1>8, <1>9, BType
  <2>2. Inode(i)' = din'[i]
    BY <1>2, <1>5 DEF Inode
  <2>3. Tight(Inode(i)')
    BY <2>1, <2>2, <1>8 DEF Tight
  <2>4. ref'[i] > 0 /\ ~dirty'[i] => Tight(ddin'[i])
    BY <1>5, <1>8, <1>9 DEF TightInv, TightAt
  <2> QED BY <2>3, <2>4 DEF TightAt, Tight
<1> QED BY <1>1, <1>2, <1>5, <1>8, <1>9, TightStep

LEMMA TightNext ==
  ASSUME FilesInv, TightInv, FilesInv', [Next]_vars PROVE TightInv'
<1>1. CASE \E f \in Fds, i \in Inodes, trunc, append \in BOOLEAN :
             Open(f, i, trunc, append)
  BY <1>1, TightOpen
<1>2. CASE \/ \E i \in Inodes : OpenExcl(i)
           \/ \E f, g \in Fds : Dup(f, g)
           \/ \E f \in Fds, pos \in Seeks : Seek(f, pos)
           \/ \E f \in Fds, len \in Lens, write \in BOOLEAN : StartIo(f, len, write)
  BY <1>2, TightDescriptor
<1>3. CASE \E f \in Fds : Close(f) \/ Fsync(f)
  BY <1>3, TightClose
<1>4. CASE TruncGrow \/ TruncShrink \/ TruncDone
  BY <1>4, TightTrunc
<1>5. CASE IoHead \/ IoBlock \/ IoTail
  <2>1. PICK n \in Nat, r \in IoRec : op \in IoRec /\ Piece(n, r)
    BY <1>5, PieceCases DEF FilesInv
  <2>2. panic = "none"
    BY <1>5 DEF IoHead, IoBlock, IoTail, Doing
  <2> QED BY <2>1, <2>2, TightTransfer
<1>6. CASE IoOut
  BY <1>6, TightOut
<1>7. CASE UNCHANGED vars
  <2>1. UNCHANGED <<din, dirty, ddin, cut, panic, ref, op>>
    BY <1>7 DEF vars
  <2>2. \A j \in Inodes : Moving(j) => Moving(j)'
    BY <2>1 DEF Moving
  <2> QED BY <2>1, <2>2, TightSame
<1> QED BY <1>1, <1>2, <1>3, <1>4, <1>5, <1>6, <1>7 DEF Next


----------------------------------------------------------------------------
(* The theorems about sizes *)

SizesInv == FilesInv /\ SizeInv /\ TightInv

\* Positions, sizes and blocks stay in step over any sequence of calls, but for
\* the blocks that a resizing on a full disk leaves behind, as long as nobody
\* opens with O_TRUNC a file that is open (with it, a position may lie behind the
\* end of its file, and sfs_bmap_load_nolock's assertion on the index fails).
THEOREM SizesInvariant == ASSUME ~TruncShared PROVE Spec => []SizesInv
<1>1. Init => SizesInv
  BY FilesInvInit, SizeInit, TightInit DEF SizesInv
<1>2. SizesInv /\ [Next]_vars => SizesInv'
  BY FilesInvNext, SizeNext, TightNext DEF SizesInv
<1> QED BY <1>1, <1>2, PTL DEF Spec

\* What SizesInv says of sizes and spare blocks is SizeOK.
LEMMA SizesFit == SizesInv => SizeOK
<1> SUFFICES ASSUME SizesInv, NEW i \in Inodes
             PROVE  LET node == Inode(i)
                    IN  /\ \/ node.size <= node.blocks * SFS_BLKSIZE
                           \/ op.kind = "trunc" /\ op.ino = i
                        /\ \/ node.blocks * SFS_BLKSIZE < node.size + SFS_BLKSIZE
                           \/ op.kind # "idle" /\ op.ino = i
                           \/ i \in cut
                        /\ \A x \in 0 .. node.blocks - 1 :
                              BlockAt(IF x < SFS_NDIRECT THEN <<i, "direct", x>>
                                      ELSE <<i, "entry", x - SFS_NDIRECT>>) # 0
  BY DEF SizeOK
<1> DEFINE node == Inode(i)
<1>1. node.size <= node.blocks * SFS_BLKSIZE \/ (op.kind = "trunc" /\ op.ino = i)
  BY DEF SizesInv, SizeInv, FitsOK, Fits, B
<1>2. ASSUME NEW x \in 0 .. node.blocks - 1
      PROVE  BlockAt(IF x < SFS_NDIRECT THEN <<i, "direct", x>>
                     ELSE <<i, "entry", x - SFS_NDIRECT>>) # 0
  <2>1. (IF x < SFS_NDIRECT THEN node.direct[x] ELSE entries[i][x - SFS_NDIRECT]) # 0
    BY DEF SizesInv, FilesInv, NameInv, MappedOK, Backed
  <2> QED BY <2>1, BlockAtIs
<1>3. \/ node.blocks * SFS_BLKSIZE < node.size + SFS_BLKSIZE
      \/ op.kind # "idle" /\ op.ino = i
      \/ i \in cut
  BY DEF SizesInv, TightInv, TightAt, Tight, Moving, B
<1> QED BY <1>1, <1>2, <1>3

\* On any disk, full ones included: a file has the blocks its size needs and no
\* more, unless its last resizing was cut short; sfs_bmap_load_nolock's assertion
\* on the index, sfs_block_inuse's on blocks and sfs_block_alloc's on the count of
\* unused blocks never fail; and sfs_truncfile's assertion that a file of the
\* wanted size has the blocks of that size fails only for an empty file whose last
\* resizing was cut short.
THEOREM FilesSound ==
  ASSUME ~TruncShared
  PROVE  Spec => [](/\ TypeOK /\ SizeOK
                    /\ panic \notin {"index", "inuse", "unused"}
                    /\ SizePanic)
<1>1. SizesInv => /\ TypeOK /\ SizeOK
                  /\ panic \notin {"index", "inuse", "unused"}
                  /\ SizePanic
  BY SizesFit DEF SizesInv, FilesInv, CallInv, NameInv, SizeInv, TightInv
<1> QED BY <1>1, SizesInvariant, PTL

\* A disk on which one file and its indirect block need more blocks than there
\* are.
SmallDisk == SFS_BLK_NENTRY > 0 /\ NBLK <= MaxBlocks

\* There no file reaches the end of its indirect block: its blocks would be
\* MaxBlocks + 1 different ones.
LEMMA NotFull ==
  ASSUME SmallDisk, FilesInv, NEW i \in Inodes
  PROVE  Inode(i).blocks # MaxBlocks
<1> SUFFICES ASSUME Inode(i).blocks = MaxBlocks PROVE FALSE
  OBVIOUS
<1> DEFINE At(x) == IF x < SFS_NDIRECT THEN <<i, "direct", x>>
                    ELSE IF x < MaxBlocks THEN <<i, "entry", x - SFS_NDIRECT>>
                    ELSE <<i, "indirect", 0>>
           Xs == 0 .. MaxBlocks
           F == [x \in Xs |-> BlockAt(At(x))]
<1>1. /\ SFS_NDIRECT \in Nat /\ SFS_BLK_NENTRY \in Nat /\ NBLK \in Nat
      /\ SFS_BLK_NENTRY > 0 /\ MaxBlocks = SFS_NDIRECT + SFS_BLK_NENTRY
      /\ MaxBlocks \in Nat /\ NBLK < MaxBlocks + 1
  BY SfsFileAssumption DEF SmallDisk, MaxBlocks
<1>2. /\ Inode(i).direct \in [Directs -> BlkNo] /\ entries[i] \in [Entries -> BlkNo]
      /\ Inode(i).indirect \in BlkNo
  BY DEF FilesInv, CallInv, TypeOK, DiskInode, Inode
<1>3. \A x \in 0 .. MaxBlocks - 1 :
         (IF x < SFS_NDIRECT THEN Inode(i).direct[x] ELSE entries[i][x - SFS_NDIRECT]) # 0
  BY DEF FilesInv, NameInv, MappedOK, Backed
<1>4. Inode(i).indirect # 0
  <2>1. SFS_NDIRECT \in 0 .. MaxBlocks - 1 /\ ~(SFS_NDIRECT < SFS_NDIRECT)
        /\ SFS_NDIRECT - SFS_NDIRECT = 0 /\ 0 \in Entries
    BY <1>1 DEF Entries
  <2>2. entries[i][0] # 0
    BY <2>1, <1>3
  <2>3. NoEntries[0] = 0
    BY <2>1 DEF NoEntries
  <2> QED BY <2>2, <2>3 DEF FilesInv, NameInv, IndirectOK
<1>5. ASSUME NEW x \in Xs PROVE At(x) \in Places /\ BlockAt(At(x)) \in Blocks
  <2>1. BlkNo = Blocks \union {0}
    BY <1>1 DEF BlkNo, Blocks
  <2>2. CASE x < SFS_NDIRECT
    <3>1. At(x) = <<i, "direct", x>> /\ x \in Directs /\ x \in 0 .. MaxBlocks - 1
      BY <2>2, <1>1 DEF Directs
    <3>2. BlockAt(At(x)) = Inode(i).direct[x] /\ Inode(i).direct[x] # 0
      BY <3>1, <2>2, <1>3, BlockAtIs
    <3> QED BY <3>1, <3>2, <2>1, <1>2, PlacesAre
  <2>3. CASE x >= SFS_NDIRECT /\ x < MaxBlocks
    <3> DEFINE y == x - SFS_NDIRECT
    <3>1. At(x) = <<i, "entry", y>> /\ y \in Entries /\ x \in 0 .. MaxBlocks - 1
          /\ ~(x < SFS_NDIRECT)
      BY <2>3, <1>1 DEF Entries
    <3>2. BlockAt(At(x)) = entries[i][y] /\ entries[i][y] # 0
      BY <3>1, <1>3, BlockAtIs
    <3> QED BY <3>1, <3>2, <2>1, <1>2, PlacesAre
  <2>4. CASE x = MaxBlocks
    <3>1. At(x) = <<i, "indirect", 0>>
      BY <2>4, <1>1
    <3>2. BlockAt(At(x)) = Inode(i).indirect
      BY <3>1, BlockAtIs
    <3> QED BY <3>1, <3>2, <2>1, <1>2, <1>4, PlacesAre
  <2> QED BY <2>2, <2>3, <2>4, <1>1
<1>6. ASSUME NEW x \in Xs, NEW z \in Xs, At(x) = At(z) PROVE x = z
  BY <1>1, <1>6
<1>7. ASSUME NEW x \in Xs, NEW z \in Xs, BlockAt(At(x)) = BlockAt(At(z)) PROVE x = z
  <2>1. BlockAt(At(x)) # 0 /\ At(x) \in Places /\ At(z) \in Places
    BY <1>1, <1>5 DEF Blocks
  <2> HIDE DEF At
  <2>2. At(x) = At(z)
    BY <2>1, <1>7 DEF FilesInv, NameInv, NamesOK
  <2> QED BY <2>2, <1>6
<1> HIDE DEF At
<1>8. F \in Injection(Xs, Blocks)
  BY <1>5, <1>7 DEF Injection, IsInjective
<1> HIDE DEF F, Xs
<1>9. IsFiniteSet(Blocks) /\ Cardinality(Blocks) = NBLK
  BY <1>1, FS_Interval DEF Blocks
<1>10. Cardinality(Xs) = MaxBlocks + 1
  BY <1>1, FS_Interval DEF Xs
<1>11. Cardinality(Xs) <= Cardinality(Blocks)
  BY <1>8, <1>9, FS_Injection
<1> QED BY <1>1, <1>9, <1>10, <1>11

LEMMA NoRange ==
  ASSUME SmallDisk, FilesInv, NEW i \in Inodes, ref[i] > 0, NEW x \in Nat
  PROVE  LoadPanic(i, x) # "range"
<1>1. Inode(i) = din[i]
  BY DEF Inode
<1>2. /\ din[i].blocks \in Nat /\ din[i].blocks <= MaxBlocks /\ MaxBlocks \in Nat
      /\ din[i].blocks # MaxBlocks
  BY <1>1, NotFull, SfsFileAssumption
     DEF FilesInv, CallInv, TypeOK, DiskInode, BoundOK, MaxBlocks
<1>3. ~(x <= din[i].blocks /\ x >= SFS_NDIRECT + SFS_BLK_NENTRY)
  BY <1>2 DEF MaxBlocks
<1> QED BY <1>2, <1>3 DEF LoadPanic

LEMMA RangeNext ==
  ASSUME SmallDisk, FilesInv, panic # "range", [Next]_vars PROVE panic' # "range"
<1>1. ASSUME \/ \E f \in Fds, i \in Inodes, trunc, append \in BOOLEAN :
                   Open(f, i, trunc, append)
             \/ \E i \in Inodes : OpenExcl(i)
             \/ \E f, g \in Fds : Dup(f, g)
             \/ \E f \in Fds : Close(f)
             \/ \E f \in Fds : Fsync(f)
             \/ \E f \in Fds, pos \in Seeks : Seek(f, pos)
             \/ \E f \in Fds, len \in Lens, write \in BOOLEAN : StartIo(f, len, write)
             \/ TruncDone \/ IoOut \/ UNCHANGED vars
      PROVE  panic' # "range"
  BY <1>1 DEF Open, OpenExcl, Dup, Close, Fsync, Seek, StartIo, TruncDone, IoOut, Stop, vars
<1>2. CASE TruncGrow
  <2>1. PICK i \in Inodes : i = op.ino /\ ref[i] > 0
    BY <1>2, BusyInode DEF TruncGrow, Doing, FilesInv
  <2>2. PICK x \in Nat : x = din[i].blocks
    BY DEF FilesInv, CallInv, TypeOK, DiskInode
  <2> QED BY <2>1, <2>2, <1>2, NoRange DEF TruncGrow, Stop
<1>3. CASE TruncShrink
  BY <1>3 DEF TruncShrink, Stop
<1>4. CASE IoHead \/ IoBlock \/ IoTail
  <2>1. PICK n \in Nat, r \in IoRec : op \in IoRec /\ Piece(n, r)
    BY <1>4, PieceCases DEF FilesInv
  <2>2. PICK i \in Inodes : i = op.ino /\ ref[i] > 0
    BY <2>1, BusyInode DEF IoRec, FilesInv
  <2>3. PICK x \in Nat : x = op.blkno
    BY <2>1 DEF IoRec
  <2> QED BY <2>1, <2>2, <2>3, NoRange DEF Piece, Transfer, Stop
<1> QED BY <1>1, <1>2, <1>3, <1>4 DEF Next

\* On a small disk, besides, no index reaches the range check of
\* sfs_bmap_get_nolock: of all assertions about the blocks of a file only
\* sfs_truncfile's, that a file of the wanted size has the blocks of that size,
\* can fail, and only for an empty file whose last resizing found the disk full;
\* every other file has exactly the blocks of its size between calls.
THEOREM FilesCorrect == ASSUME ~TruncShared, SmallDisk PROVE Spec => []FileOK
<1> DEFINE Inv == FilesInv /\ panic # "range"
<1>1. Init => Inv
  BY FilesInvInit DEF Init
<1>2. Inv /\ [Next]_vars => Inv'
  BY FilesInvNext, RangeNext
<1>3. Spec => []Inv
  BY <1>1, <1>2, PTL DEF Spec
<1>4. /\ Inv
      /\ TypeOK /\ SizeOK /\ panic \notin {"index", "inuse", "unused"} /\ SizePanic
      => FileOK
  BY DEF FileOK, AssertsOK, SizePanic
<1> HIDE DEF Inv
<1> QED BY <1>3, <1>4, FilesSound, PTL

----------------------------------------------------------------------------
(* Reading *)

\* A piece of a read lies in a block the file has.
LEMMA ReadStep ==
  ASSUME SizesInv, op.kind = "io", ~op.write, [Next]_vars
  PROVE  UNCHANGED fileVars
<1>1. op \in IoRec /\ ~(op = Idle) /\ op.kind # "trunc"
  BY OpCases DEF Idle, SizesInv, FilesInv, CallInv, TypeOK
<1>2. PICK i \in Inodes : i = op.ino /\ ref[i] > 0
  BY BusyInode DEF SizesInv, FilesInv
<1>3. PICK k \in Nat : k = din[i].blocks
  BY DEF SizesInv, FilesInv, CallInv, TypeOK, DiskInode
<1>4. /\ op.pos \in Nat /\ op.end \in Nat /\ op.pos <= op.end /\ op.end <= din[i].size
      /\ din[i].size \in Nat /\ k \in Int /\ k * B \in Int /\ din[i].size <= k * B
  <2>1. op.pos \in Nat /\ op.end \in Nat /\ op.pos <= op.end /\ op.end <= din[i].size
    BY <1>1, <1>2 DEF IoRec, SizesInv, SizeInv, PosOK, FilesInv, CallInv, PieceOK
  <2>2. Inode(i) = din[i] /\ din[i].size \in Nat
    BY <1>2 DEF Inode, SizesInv, FilesInv, CallInv, TypeOK, DiskInode
  <2>3. Fits(Inode(i))
    BY <1>1 DEF SizesInv, SizeInv, FitsOK
  <2>4. k \in Int
    OBVIOUS
  <2>5. k * B \in Int
    BY <2>4, TimesB
  <2> QED BY <2>1, <2>2, <2>3, <2>4, <2>5, <1>3 DEF Fits
<1>5. CASE IoHead \/ IoBlock \/ IoTail
  <2>1. PICK n \in Nat, r \in IoRec : Piece(n, r)
    BY <1>5, PieceCases DEF SizesInv, FilesInv
  <2>2. PICK x \in Nat : x = op.blkno
    BY <1>1 DEF IoRec
  <2>3. x * B <= op.pos /\ op.pos < op.end /\ x \in Int
    BY <2>1, <2>2 DEF Piece
  <2>4. x * B \in Int /\ (x < k <=> x * B < k * B)
    BY <2>3, <1>4, TimesB
  <2>5. x < k
    BY <2>3, <2>4, <1>4
  <2>6. CASE LoadPanic(i, x) # "none" \/ LoadFails(i, x)
    BY <2>1, <2>2, <2>6, <1>2 DEF Piece, Transfer, Stop, fileVars
  <2>7. CASE LoadPanic(i, x) = "none" /\ ~LoadFails(i, x)
    <3>1. LoadBlock(i, x)
      BY <2>1, <2>2, <2>7, <1>2 DEF Piece, Transfer
    <3>2. /\ FileTypes /\ OnlyFile(i) /\ Loaded(i, x)
          /\ din'[i].blocks = IF x = din[i].blocks THEN x + 1 ELSE din[i].blocks
      BY <3>1, <2>7, LoadEffect DEF SizesInv, FilesInv, CallInv
    <3>3. /\ OldBlock(i, x) /\ din'[i].blocks = din[i].blocks
          /\ din'[i].size = din[i].size
      BY <3>2, <2>5, <1>3 DEF Loaded, OnlyFile
    <3>4. /\ din \in [Inodes -> DiskInode] /\ dirty \in [Inodes -> BOOLEAN]
          /\ entries \in [Inodes -> [Entries -> BlkNo]]
          /\ din' \in [Inodes -> DiskInode] /\ dirty' \in [Inodes -> BOOLEAN]
          /\ entries' \in [Inodes -> [Entries -> BlkNo]]
      BY <3>2 DEF SizesInv, FilesInv, CallInv, TypeOK, FileTypes
    <3>5. din'[i] = din[i] /\ dirty'[i] = dirty[i] /\ entries'[i] = entries[i]
      <4>1. din[i] \in DiskInode /\ din'[i] \in DiskInode
        BY <3>4
      <4>2. din'[i] = din[i]
        BY <4>1, <3>3 DEF DiskInode, OldBlock
      <4> QED BY <4>2, <3>3 DEF OldBlock
    <3>6. \A j \in Inodes : din'[j] = din[j] /\ entries'[j] = entries[j]
                             /\ dirty'[j] = dirty[j]
      BY <3>2, <3>5 DEF OnlyFile
    <3>7. din' = din /\ entries' = entries
      BY <3>4, <3>6
    <3>8. dirty' = dirty
      BY <3>4, <3>6
    <3>9. free' = free /\ unused' = unused
      BY <3>2, <3>3 DEF OldBlock, FileTypes, SizesInv, FilesInv, CallInv, FreeCount
    <3> QED BY <3>7, <3>8, <3>9 DEF fileVars
  <2> QED BY <2>6, <2>7
<1>6. CASE IoOut
  BY <1>2, <1>4, <1>6 DEF IoOut, fileVars
<1>7. CASE TruncGrow \/ TruncShrink \/ TruncDone
  BY <1>1, <1>7 DEF TruncGrow, TruncShrink, TruncDone, Doing
<1>8. CASE UNCHANGED vars
  BY <1>8 DEF vars, fileVars
<1>9. ASSUME ~(IoHead \/ IoBlock \/ IoTail \/ IoOut \/ TruncGrow \/ TruncShrink
               \/ TruncDone \/ UNCHANGED vars)
      PROVE  FALSE
  BY <1>1, <1>9
     DEF Next, Open, OpenExcl, Dup, Close, Fsync, Seek, StartIo, Ready
<1> QED BY <1>5, <1>6, <1>7, <1>8, <1>9

\* Reading changes neither the blocks nor the inode of a file, although
\* sfs_io_nolock loads blocks with the function that creates them.
THEOREM ReadsKeepFiles == ASSUME ~TruncShared PROVE Spec => ReadKeepsFile
<1>1. SizesInv /\ [Next]_vars
        => [op.kind = "io" /\ ~op.write => UNCHANGED fileVars]_vars
  BY ReadStep
<1> QED BY <1>1, SizesInvariant, PTL DEF Spec, ReadKeepsFile

----------------------------------------------------------------------------
(* The keyboard: its inductive invariant *)

\* A reader in schedule() that no key has found waits at an empty buffer.
SleepOK ==
  \A r \in Readers : pc[r] = "sleep" => /\ wakeup_flags[r] = "WT_INTERRUPTED"
                                        /\ p_rpos = p_wpos

\* Neither the buffer nor the history runs ahead of what was typed.
TypedOK == p_wpos <= typed /\ lost \subseteq 1..typed

\* No key was stored or taken twice.
SeenOnce == \A j, k \in 1..Len(Seen) : Seen[j] = Seen[k] => j = k

StdinInv ==
  StdinTypeOK /\ QueueOK /\ SleepOK /\ TypedOK /\ SeenOnce /\ Accounted /\ InOrder

\* It splits into what concerns the keys and what concerns the readers.
KeyTypes ==
  /\ stdin_buffer \in [Slots -> 0..MaxKeys]
  /\ p_rpos \in 0..MaxKeys /\ p_wpos \in 0..MaxKeys
  /\ 0 <= p_wpos - p_rpos /\ p_wpos - p_rpos <= STDIN_BUFSIZE
  /\ typed \in 0..MaxKeys /\ got \in Seq(0..MaxKeys) /\ lost \subseteq 1..MaxKeys

ReaderTypes ==
  /\ wait_queue \in Seq(Readers)
  /\ pc \in [Readers -> {"user", "sleep", "ready", "dead"}]
  /\ wakeup_flags \in [Readers -> {"WT_KBD", "WT_INTERRUPTED"}]
  /\ need \in [Readers -> 0..MaxLen] /\ killed \in [Readers -> BOOLEAN]

KeyInv == KeyTypes /\ TypedOK /\ SeenOnce /\ Accounted /\ InOrder
ReaderInv == ReaderTypes /\ QueueOK /\ SleepOK

LEMMA Parts == StdinInv <=> KeyInv /\ ReaderInv
BY DEF StdinInv, KeyInv, ReaderInv, StdinTypeOK, KeyTypes, ReaderTypes

LEMMA PartsNext == StdinInv' <=> KeyInv' /\ ReaderInv'
BY DEF StdinInv, KeyInv, ReaderInv, StdinTypeOK, KeyTypes, ReaderTypes

----------------------------------------------------------------------------
(* The ring *)

\* A multiple of the size that is less than the size away from 0 is 0.
LEMMA SmallMultiple ==
  ASSUME NEW S \in Nat, S > 0, NEW d \in Int, -S < d * S, d * S < S
  PROVE  d = 0
<1>1. CASE d <= -1
  <2>1. d * S <= -S
    BY <1>1
  <2> QED BY <2>1
<1>2. CASE d >= 1
  <2>1. d * S >= S
    BY <1>2
  <2> QED BY <2>1
<1> QED BY <1>1, <1>2

LEMMA ModSlot ==
  ASSUME NEW a \in Nat
  PROVE  /\ a % STDIN_BUFSIZE \in Slots
         /\ (a + STDIN_BUFSIZE) % STDIN_BUFSIZE = a % STDIN_BUFSIZE
<1> DEFINE S == STDIN_BUFSIZE
           b == a + S
<1>1. S \in Nat /\ S > 0 /\ b \in Nat /\ b = a + S
  BY StdinAssumption
<1> HIDE DEF S, b
<1>2. a % S \in 0..(S - 1) /\ b % S \in 0..(S - 1)
  BY <1>1
<1>3. /\ a = (a \div S) * S + (a % S) /\ b = (b \div S) * S + (b % S)
      /\ a \div S \in Int /\ b \div S \in Int
  BY <1>1
<1> DEFINE d == (b \div S) - (a \div S) - 1
<1>4. d \in Int /\ d * S = (b \div S) * S - (a \div S) * S - S
  BY <1>1, <1>3
<1> HIDE DEF d
<1>5. d * S = (a % S) - (b % S)
  <2>1. (a \div S) * S \in Int /\ (b \div S) * S \in Int
    BY <1>1, <1>3
  <2> QED BY <2>1, <1>1, <1>2, <1>3, <1>4
<1>6. -S < d * S /\ d * S < S
  BY <1>1, <1>2, <1>5
<1>7. d = 0
  BY <1>1, <1>4, <1>6, SmallMultiple
<1>8. d * S = 0
  BY <1>1, <1>7
<1>9. b % S = a % S
  BY <1>2, <1>5, <1>8
<1> QED BY <1>2, <1>9 DEF S, b, Slots

\* Positions less than a buffer apart use different slots.
LEMMA ModDiffers ==
  ASSUME NEW a \in Nat, NEW b \in Nat, a < b, b < a + STDIN_BUFSIZE
  PROVE  a % STDIN_BUFSIZE # b % STDIN_BUFSIZE
<1> DEFINE S == STDIN_BUFSIZE
<1>1. S \in Nat /\ S > 0
  BY StdinAssumption
<1>2. b < a + S
  OBVIOUS
<1> HIDE DEF S
<1>3. /\ a = (a \div S) * S + (a % S) /\ b = (b \div S) * S + (b % S)
      /\ a \div S \in Int /\ b \div S \in Int /\ a % S \in Int /\ b % S \in Int
  BY <1>1
<1> SUFFICES ASSUME a % S = b % S PROVE FALSE
  BY DEF S
<1> DEFINE d == (b \div S) - (a \div S)
<1>4. d \in Int /\ d * S = (b \div S) * S - (a \div S) * S
  BY <1>1, <1>3
<1> HIDE DEF d
<1>5. (b \div S) * S - (a \div S) * S = b - a
  <2>1. (a \div S) * S \in Int /\ (b \div S) * S \in Int
    BY <1>1, <1>3
  <2> QED BY <2>1, <1>3
<1>6. 0 < d * S /\ d * S < S
  BY <1>1, <1>2, <1>4, <1>5
<1>7. d = 0
  BY <1>1, <1>4, <1>6, SmallMultiple
<1>8. d * S = 0
  BY <1>1, <1>7
<1> QED BY <1>6, <1>8

Keys == 0..MaxKeys

\* The unread part of a buffer `buf' with positions rd and wr.
Buffered(buf, rd, wr) == [i \in 1..(wr - rd) |-> buf[(rd + (i - 1)) % STDIN_BUFSIZE]]

\* Sequence s holds g and then what is unread.
Listed(s, g, buf, rd, wr) ==
  /\ Len(g) \in Nat /\ wr - rd \in Nat
  /\ s \in Seq(Keys) /\ Len(s) = Len(g) + (wr - rd)
  /\ \A k \in 1..Len(g) : s[k] = g[k]
  /\ \A j \in 0..(wr - rd - 1) : s[Len(g) + j + 1] = buf[(rd + j) % STDIN_BUFSIZE]

LEMMA SeenParts ==
  ASSUME NEW g \in Seq(Keys), NEW rd \in Nat, NEW wr \in Nat, rd <= wr,
         NEW buf \in [Slots -> Keys]
  PROVE  Listed(g \o Buffered(buf, rd, wr), g, buf, rd, wr)
<1> DEFINE n == wr - rd
           u == Buffered(buf, rd, wr)
<1>1. n \in Nat
  OBVIOUS
<1>2. \A j \in 0..(n - 1) : j + 1 \in 1..n /\ (j + 1) - 1 = j
  OBVIOUS
<1>3. \A j \in Nat : buf[(rd + j) % STDIN_BUFSIZE] \in Keys
  <2> SUFFICES ASSUME NEW j \in Nat PROVE buf[(rd + j) % STDIN_BUFSIZE] \in Keys
    OBVIOUS
  <2>1. rd + j \in Nat
    OBVIOUS
  <2>2. (rd + j) % STDIN_BUFSIZE \in Slots
    BY <2>1, ModSlot
  <2> QED BY <2>2
<1>4. u \in [1..n -> Keys]
  <2>1. \A i \in 1..n : i - 1 \in Nat
    BY <1>1
  <2> QED BY <2>1, <1>3 DEF Buffered
<1>5. \A j \in 0..(n - 1) : u[j + 1] = buf[(rd + j) % STDIN_BUFSIZE]
  BY <1>2 DEF Buffered
<1> HIDE DEF u, n
<1>6. u \in Seq(Keys) /\ Len(u) = n
  BY <1>1, <1>4
<1>7. /\ g \o u \in Seq(Keys) /\ Len(g \o u) = Len(g) + n /\ Len(g) \in Nat
      /\ \A k \in 1..Len(g) : (g \o u)[k] = g[k]
  <2>1. g \o u \in Seq(Keys) /\ Len(g \o u) = Len(g) + n /\ Len(g) \in Nat
    BY <1>6
  <2>2. ASSUME NEW k \in 1..Len(g) PROVE (g \o u)[k] = g[k]
    BY <2>2, <1>6
  <2> QED BY <2>1, <2>2
<1>8. ASSUME NEW j \in 0..(n - 1) PROVE (g \o u)[Len(g) + j + 1] = u[j + 1]
  <2>1. Len(g) \in Nat /\ j + 1 \in 1..Len(u) /\ Len(g) + j + 1 = Len(g) + (j + 1)
    BY <1>1, <1>6
  <2> QED BY <2>1, <1>6
<1> QED BY <1>1, <1>5, <1>7, <1>8 DEF n, u, Listed

LEMMA SeenIs ==
  ASSUME KeyTypes
  PROVE  /\ got \in Seq(Keys) /\ stdin_buffer \in [Slots -> Keys]
         /\ p_rpos \in Nat /\ p_wpos \in Nat /\ p_rpos <= p_wpos
         /\ Seen = got \o Buffered(stdin_buffer, p_rpos, p_wpos)
<1>1. /\ got \in Seq(Keys) /\ stdin_buffer \in [Slots -> Keys]
      /\ p_rpos \in 0..MaxKeys /\ p_wpos \in 0..MaxKeys /\ 0 <= p_wpos - p_rpos
  BY DEF KeyTypes, Keys
<1>2. p_rpos \in Nat /\ p_wpos \in Nat /\ p_rpos <= p_wpos
  BY <1>1
<1>3. Seen = got \o Buffered(stdin_buffer, p_rpos, p_wpos)
  BY DEF Seen, Unread, CharAt, Buffered
<1> QED BY <1>1, <1>2, <1>3

LEMMA Ordered ==
  ASSUME NEW a \in Nat, NEW b \in Nat, 0 <= b - a PROVE a <= b
OBVIOUS

LEMMA SeenNext ==
  ASSUME KeyTypes'
  PROVE  /\ got' \in Seq(Keys) /\ stdin_buffer' \in [Slots -> Keys]
         /\ p_rpos' \in Nat /\ p_wpos' \in Nat /\ p_rpos' <= p_wpos'
         /\ Seen' = got' \o Buffered(stdin_buffer', p_rpos', p_wpos')
<1>1. /\ got' \in Seq(Keys) /\ stdin_buffer' \in [Slots -> Keys]
      /\ p_rpos' \in 0..MaxKeys /\ p_wpos' \in 0..MaxKeys /\ 0 <= p_wpos' - p_rpos'
  BY DEF KeyTypes, Keys
<1>2. p_rpos' \in Nat /\ p_wpos' \in Nat /\ p_rpos' <= p_wpos'
  <2>1. p_rpos' \in Nat
    BY <1>1, StdinAssumption
  <2>2. p_wpos' \in Nat
    BY <1>1, StdinAssumption
  <2>3. 0 <= p_wpos' - p_rpos'
    BY <1>1
  <2>4. p_rpos' <= p_wpos'
    BY <2>1, <2>2, <2>3, Ordered
  <2> QED BY <2>1, <2>2, <2>4
<1>3. Seen' = got' \o Buffered(stdin_buffer', p_rpos', p_wpos')
  BY DEF Seen, Unread, CharAt, Buffered
<1> QED BY <1>1, <1>2, <1>3

----------------------------------------------------------------------------
(* Keys *)

\* SeenOnce, Accounted and InOrder of a sequence s, after n keys of which those
\* in X are lost.
Once(s) == \A j, k \in 1..Len(s) : s[j] = s[k] => j = k
All(s, n, X) ==
  {s[k] : k \in 1..Len(s)} = (1..n) \ X /\ Len(s) = Cardinality((1..n) \ X)
InTurn(s, n, X) == X = {} => s = [k \in 1..n |-> k]

LEMMA AllIn ==
  ASSUME NEW s, NEW n, NEW X, All(s, n, X)
  PROVE  \A k \in 1..Len(s) : s[k] \in (1..n) \ X
<1> SUFFICES ASSUME NEW k \in 1..Len(s) PROVE s[k] \in (1..n) \ X
  OBVIOUS
<1>1. s[k] \in {s[j] : j \in 1..Len(s)}
  OBVIOUS
<1> QED BY <1>1, Zenon DEF All

\* A key at the end.
LEMMA KeyAdded ==
  ASSUME NEW s \in Seq(Keys), NEW t \in Seq(Keys), NEW n \in Nat, NEW X,
         X \subseteq 1..n, Once(s), All(s, n, X), InTurn(s, n, X),
         Len(t) = Len(s) + 1, \A k \in 1..Len(s) : t[k] = s[k], t[Len(s) + 1] = n + 1
  PROVE  Once(t) /\ All(t, n + 1, X) /\ InTurn(t, n + 1, X)
<1> DEFINE D == (1..n) \ X
           E == (1..(n + 1)) \ X
<1>1. Len(s) \in Nat /\ \A k \in 1..Len(s) : s[k] \in D
  BY AllIn
<1>2. E = D \union {n + 1} /\ n + 1 \notin D
  OBVIOUS
<1>3. Once(t)
  BY <1>1 DEF Once
<1>4. {t[k] : k \in 1..Len(t)} = E
  <2>1. ASSUME NEW x \in E PROVE \E k \in 1..Len(t) : t[k] = x
    <3>1. CASE x = n + 1
      BY <3>1, <1>1
    <3>2. CASE x \in D
      <4>1. PICK k \in 1..Len(s) : s[k] = x
        BY <3>2 DEF All
      <4> QED BY <4>1, <1>1
    <3> QED BY <3>1, <3>2, <1>2
  <2>2. ASSUME NEW k \in 1..Len(t) PROVE t[k] \in E
    <3>1. CASE k = Len(s) + 1
      BY <3>1, <1>2
    <3>2. CASE k # Len(s) + 1
      BY <3>2, <1>1, <1>2
    <3> QED BY <3>1, <3>2
  <2> QED BY <2>1, <2>2
<1>5. Cardinality(E) = Cardinality(D) + 1
  <2>1. IsFiniteSet(1..n)
    BY FS_Interval
  <2>2. IsFiniteSet(D)
    BY <2>1, FS_Subset
  <2> HIDE DEF D, E
  <2> QED BY <2>2, <1>2, FS_AddElement
<1>6. ASSUME X = {} PROVE t = [k \in 1..(n + 1) |-> k]
  <2>1. s = [k \in 1..n |-> k]
    BY <1>6 DEF InTurn
  <2>2. Len(s) = n /\ \A k \in 1..n : s[k] = k
    BY <2>1, <1>1
  <2>3. DOMAIN t = 1..(n + 1) /\ t = [k \in 1..(n + 1) |-> t[k]]
    BY <2>2
  <2>4. \A k \in 1..(n + 1) : t[k] = k
    BY <2>2
  <2> QED BY <2>3, <2>4
<1> QED BY <1>3, <1>4, <1>5, <1>6 DEF All, InTurn

\* A key in the place of one that is lost.
LEMMA KeyReplaced ==
  ASSUME NEW s \in Seq(Keys), NEW t \in Seq(Keys), NEW n \in Nat, NEW X,
         X \subseteq 1..n, Once(s), All(s, n, X), NEW m \in 1..Len(s), Len(t) = Len(s),
         \A k \in 1..Len(s) : k # m => t[k] = s[k], t[m] = n + 1
  PROVE  Once(t) /\ All(t, n + 1, X \union {s[m]}) /\ InTurn(t, n + 1, X \union {s[m]})
<1> DEFINE D == (1..n) \ X
           c == s[m]
           E == (1..(n + 1)) \ (X \union {c})
<1>1. Len(s) \in Nat /\ (\A k \in 1..Len(s) : s[k] \in D) /\ c \in D
  BY AllIn
<1>2. E = (D \ {c}) \union {n + 1} /\ n + 1 \notin D
  BY <1>1
<1>3. Once(t)
  BY <1>1 DEF Once
<1>4. {t[k] : k \in 1..Len(t)} = E
  <2>1. ASSUME NEW x \in E PROVE \E k \in 1..Len(t) : t[k] = x
    <3>1. CASE x = n + 1
      BY <3>1, <1>1
    <3>2. CASE x \in D /\ x # c
      <4>1. PICK k \in 1..Len(s) : s[k] = x
        BY <3>2 DEF All
      <4> QED BY <4>1, <3>2
    <3> QED BY <3>1, <3>2, <1>2
  <2>2. ASSUME NEW k \in 1..Len(t) PROVE t[k] \in E
    <3>1. CASE k = m
      BY <3>1, <1>2
    <3>2. CASE k # m
      <4>1. t[k] = s[k] /\ s[k] \in D /\ s[k] # c
        BY <3>2, <1>1 DEF Once
      <4> HIDE DEF E, c, D
      <4> QED BY <4>1, <1>2
    <3> QED BY <3>1, <3>2
  <2> QED BY <2>1, <2>2
<1>5. Cardinality(E) = Cardinality(D)
  <2>1. IsFiniteSet(1..n)
    BY FS_Interval
  <2>2. IsFiniteSet(D)
    BY <2>1, FS_Subset
  <2> HIDE DEF D, E, c
  <2>3. /\ IsFiniteSet(D \ {c}) /\ Cardinality(D) \in Nat
        /\ Cardinality(D \ {c}) = Cardinality(D) - 1
    BY <2>2, <1>1, FS_RemoveElement, FS_CardinalityType
  <2>4. Cardinality((D \ {c}) \union {n + 1}) = Cardinality(D \ {c}) + 1
    BY <2>3, <1>2, FS_AddElement
  <2> QED BY <2>3, <2>4, <1>2
<1>6. X \union {c} # {}
  OBVIOUS
<1> HIDE DEF c, E, D
<1>7. All(t, n + 1, X \union {c})
  BY <1>4, <1>5 DEF All, D, E
<1> QED BY <1>3, <1>6, <1>7 DEF c, InTurn

LEMMA KeyParts ==
  KeyInv <=> KeyTypes /\ TypedOK /\ Once(Seen) /\ All(Seen, typed, lost)
             /\ InTurn(Seen, typed, lost)
BY DEF KeyInv, SeenOnce, Accounted, InOrder, Once, All, InTurn

LEMMA KeyPartsNext ==
  KeyInv' <=> KeyTypes' /\ TypedOK' /\ Once(Seen') /\ All(Seen', typed', lost')
              /\ InTurn(Seen', typed', lost')
BY DEF KeyInv, SeenOnce, Accounted, InOrder, Once, All, InTurn

\* The key that a full buffer gives up is the oldest that was not read.
LEMMA Overwritten ==
  ASSUME KeyInv, ~Room
  PROVE  /\ stdin_buffer[p_wpos % STDIN_BUFSIZE] = Seen[Len(got) + 1]
         /\ p_wpos % STDIN_BUFSIZE = p_rpos % STDIN_BUFSIZE
         /\ p_wpos - p_rpos = STDIN_BUFSIZE /\ Len(got) + 1 \in 1..Len(Seen)
         /\ Seen[Len(got) + 1] \in 1..typed
<1>1. /\ got \in Seq(Keys) /\ stdin_buffer \in [Slots -> Keys]
      /\ p_rpos \in Nat /\ p_wpos \in Nat /\ p_rpos <= p_wpos
      /\ Seen = got \o Buffered(stdin_buffer, p_rpos, p_wpos)
  BY SeenIs DEF KeyInv
<1>2. /\ STDIN_BUFSIZE \in Nat /\ STDIN_BUFSIZE > 0 /\ p_wpos = p_rpos + STDIN_BUFSIZE
      /\ p_wpos - p_rpos = STDIN_BUFSIZE
  BY <1>1, StdinAssumption DEF KeyInv, KeyTypes, Room
<1>3. p_wpos % STDIN_BUFSIZE = p_rpos % STDIN_BUFSIZE
  BY <1>1, <1>2, ModSlot
<1>4. /\ Len(got) \in Nat /\ Len(Seen) = Len(got) + (p_wpos - p_rpos)
      /\ \A j \in 0..(p_wpos - p_rpos - 1) :
            Seen[Len(got) + j + 1] = stdin_buffer[(p_rpos + j) % STDIN_BUFSIZE]
  <2>1. Listed(Seen, got, stdin_buffer, p_rpos, p_wpos)
    BY <1>1, SeenParts
  <2> QED BY <2>1 DEF Listed
<1>5. 0 \in 0..(p_wpos - p_rpos - 1) /\ Len(got) + 0 + 1 = Len(got) + 1 /\ p_rpos + 0 = p_rpos
      /\ Len(got) + 1 \in 1..Len(Seen)
  BY <1>1, <1>2, <1>4
<1>6. Seen[Len(got) + 1] = stdin_buffer[p_rpos % STDIN_BUFSIZE]
  BY <1>4, <1>5
<1>7. Seen[Len(got) + 1] \in (1..typed) \ lost
  BY <1>5, KeyParts, AllIn
<1> QED BY <1>2, <1>3, <1>5, <1>6, <1>7

\* A key typed.
LEMMA KeyWrite ==
  ASSUME KeyInv, typed < MaxKeys, typed' = typed + 1,
         stdin_buffer' = [stdin_buffer EXCEPT ![p_wpos % STDIN_BUFSIZE] = typed + 1],
         p_wpos' = IF Room THEN p_wpos + 1 ELSE p_wpos,
         lost' = IF Room THEN lost ELSE lost \cup {stdin_buffer[p_wpos % STDIN_BUFSIZE]},
         UNCHANGED <<p_rpos, got>>
  PROVE  KeyInv'
<1> DEFINE z == p_wpos % STDIN_BUFSIZE
           n == p_wpos - p_rpos
           L == Len(got)
<1>1. /\ got \in Seq(Keys) /\ stdin_buffer \in [Slots -> Keys]
      /\ p_rpos \in Nat /\ p_wpos \in Nat /\ p_rpos <= p_wpos
      /\ Seen = got \o Buffered(stdin_buffer, p_rpos, p_wpos)
  BY SeenIs DEF KeyInv
<1>2. /\ L \in Nat /\ n \in Nat
      /\ Seen \in Seq(Keys) /\ Len(Seen) = L + n
      /\ \A k \in 1..L : Seen[k] = got[k]
      /\ \A j \in 0..(n - 1) :
            Seen[L + j + 1] = stdin_buffer[(p_rpos + j) % STDIN_BUFSIZE]
  <2>1. Listed(Seen, got, stdin_buffer, p_rpos, p_wpos)
    BY <1>1, SeenParts
  <2> QED BY <2>1 DEF Listed
<1>3. /\ typed \in Nat /\ typed <= MaxKeys /\ MaxKeys \in Nat /\ p_wpos <= typed
      /\ lost \subseteq 1..typed /\ STDIN_BUFSIZE \in Nat /\ STDIN_BUFSIZE > 0
      /\ n <= STDIN_BUFSIZE /\ p_rpos <= MaxKeys
      /\ Once(Seen) /\ All(Seen, typed, lost) /\ InTurn(Seen, typed, lost)
  BY KeyParts, StdinAssumption DEF KeyTypes, TypedOK
<1>4. z \in Slots /\ typed + 1 \in Keys
  BY <1>1, <1>3, ModSlot DEF Keys
<1>5. /\ stdin_buffer' \in [Slots -> Keys] /\ stdin_buffer'[z] = typed + 1
      /\ \A y \in Slots : y # z => stdin_buffer'[y] = stdin_buffer[y]
  BY <1>1, <1>4
<1>6. \A j \in 0..(n - 1) : (p_rpos + j) % STDIN_BUFSIZE \in Slots
  <2> SUFFICES ASSUME NEW j \in 0..(n - 1) PROVE (p_rpos + j) % STDIN_BUFSIZE \in Slots
    OBVIOUS
  <2>1. p_rpos + j \in Nat
    BY <1>1, <1>2
  <2> QED BY <2>1, ModSlot
<1>7. CASE Room
  <2>1. n < STDIN_BUFSIZE /\ p_wpos' = p_wpos + 1 /\ lost' = lost
    BY <1>7 DEF Room
  <2>2. KeyTypes' /\ TypedOK'
    <3>1. p_wpos + 1 \in 0..MaxKeys /\ p_wpos + 1 <= typed + 1 /\ typed + 1 \in 0..MaxKeys
      BY <1>1, <1>3
    <3>2. 0 <= (p_wpos + 1) - p_rpos /\ (p_wpos + 1) - p_rpos <= STDIN_BUFSIZE
      BY <2>1, <1>1, <1>3
    <3>3. lost \subseteq 1..(typed + 1) /\ lost \subseteq 1..MaxKeys
      BY <1>3
    <3>4. p_rpos \in 0..MaxKeys
      BY <1>1, <1>3
    <3> QED BY <3>1, <3>2, <3>3, <3>4, <2>1, <1>1, <1>5 DEF KeyTypes, TypedOK, Keys
  <2>3. Seen' = got \o Buffered(stdin_buffer', p_rpos, p_wpos + 1)
    BY <2>1, <2>2, SeenNext
  <2>4. /\ Seen' \in Seq(Keys) /\ Len(Seen') = L + (n + 1)
        /\ \A k \in 1..L : Seen'[k] = got[k]
        /\ \A j \in 0..n : Seen'[L + j + 1] = stdin_buffer'[(p_rpos + j) % STDIN_BUFSIZE]
    <3> DEFINE w == p_wpos + 1
    <3>1. w \in Nat /\ p_rpos <= w /\ w - p_rpos = n + 1 /\ (w - p_rpos) - 1 = n
      BY <1>1
    <3> HIDE DEF w
    <3>2. Seen' = got \o Buffered(stdin_buffer', p_rpos, w)
      BY <2>3 DEF w
    <3>3. /\ Seen' \in Seq(Keys) /\ Len(Seen') = L + (w - p_rpos)
          /\ \A k \in 1..L : Seen'[k] = got[k]
          /\ \A j \in 0..(w - p_rpos - 1) :
                Seen'[L + j + 1] = stdin_buffer'[(p_rpos + j) % STDIN_BUFSIZE]
      <4>1. Listed(Seen', got, stdin_buffer', p_rpos, w)
        BY <3>1, <3>2, <1>1, <1>5, SeenParts
      <4> QED BY <4>1 DEF Listed
    <3> QED BY <3>1, <3>3
  <2>5. \A j \in 0..(n - 1) : (p_rpos + j) % STDIN_BUFSIZE # z
    <3> SUFFICES ASSUME NEW j \in 0..(n - 1) PROVE (p_rpos + j) % STDIN_BUFSIZE # z
      OBVIOUS
    <3>1. p_rpos + j \in Nat /\ p_rpos + j < p_wpos /\ p_wpos < p_rpos + j + STDIN_BUFSIZE
      BY <2>1, <1>1, <1>2, <1>3
    <3> QED BY <3>1, <1>1, ModDiffers
  <2>6. Seen'[L + n + 1] = typed + 1
    <3>1. n \in 0..n /\ p_rpos + n = p_wpos
      BY <1>1, <1>2
    <3> QED BY <3>1, <2>4, <1>5
  <2>7. \A k \in 1..Len(Seen) : Seen'[k] = Seen[k]
    <3> SUFFICES ASSUME NEW k \in 1..(L + n) PROVE Seen'[k] = Seen[k]
      BY <1>2
    <3>1. CASE k <= L
      BY <3>1, <2>4, <1>2
    <3>2. CASE k > L
      <4> DEFINE j == k - L - 1
      <4>1. j \in 0..(n - 1) /\ j \in 0..n /\ L + j + 1 = k
        BY <3>2, <1>2
      <4> HIDE DEF j
      <4> QED BY <4>1, <2>4, <2>5, <1>2, <1>5, <1>6
    <3> QED BY <3>1, <3>2, <1>2
  <2>8. Len(Seen') = Len(Seen) + 1 /\ Seen'[Len(Seen) + 1] = typed + 1
    BY <2>4, <2>6, <1>2
  <2> QED BY <2>1, <2>2, <2>4, <2>7, <2>8, <1>2, <1>3, KeyAdded, KeyPartsNext
<1>8. CASE ~Room
  <2> DEFINE c == Seen[L + 1]
  <2>1. /\ p_wpos' = p_wpos /\ lost' = lost \cup {c} /\ n = STDIN_BUFSIZE
        /\ z = p_rpos % STDIN_BUFSIZE /\ L + 1 \in 1..Len(Seen) /\ c \in 1..typed
    BY <1>8, Overwritten
  <2>2. KeyTypes' /\ TypedOK'
    <3>1. p_wpos \in 0..MaxKeys /\ p_wpos <= typed + 1 /\ typed + 1 \in 0..MaxKeys
      BY <1>1, <1>3
    <3>2. 0 <= p_wpos - p_rpos /\ p_wpos - p_rpos <= STDIN_BUFSIZE
      BY <2>1, <1>1, <1>3
    <3>3. lost' \subseteq 1..(typed + 1) /\ lost' \subseteq 1..MaxKeys
      <4> HIDE DEF c
      <4>1. c \in 1..(typed + 1) /\ c \in 1..MaxKeys
            /\ lost \subseteq 1..(typed + 1) /\ lost \subseteq 1..MaxKeys
        BY <2>1, <1>3
      <4> QED BY <4>1, <2>1
    <3>4. p_rpos \in 0..MaxKeys
      BY <1>1, <1>3
    <3> QED BY <3>1, <3>2, <3>3, <3>4, <2>1, <1>1, <1>5 DEF KeyTypes, TypedOK, Keys
  <2>3. Seen' = got \o Buffered(stdin_buffer', p_rpos, p_wpos)
    BY <2>1, <2>2, SeenNext
  <2>4. /\ Seen' \in Seq(Keys) /\ Len(Seen') = L + n
        /\ \A k \in 1..L : Seen'[k] = got[k]
        /\ \A j \in 0..(n - 1) :
              Seen'[L + j + 1] = stdin_buffer'[(p_rpos + j) % STDIN_BUFSIZE]
    <3>1. Listed(Seen', got, stdin_buffer', p_rpos, p_wpos)
      BY <2>3, <1>1, <1>5, SeenParts
    <3> QED BY <3>1 DEF Listed
  <2>5. \A j \in 1..(n - 1) : (p_rpos + j) % STDIN_BUFSIZE # z
    <3> SUFFICES ASSUME NEW j \in 1..(n - 1) PROVE (p_rpos + j) % STDIN_BUFSIZE # z
      OBVIOUS
    <3>1. p_rpos + j \in Nat /\ p_rpos < p_rpos + j /\ p_rpos + j < p_rpos + STDIN_BUFSIZE
      BY <2>1, <1>1, <1>2, <1>3
    <3> QED BY <3>1, <2>1, <1>1, ModDiffers
  <2>6. Seen'[L + 1] = typed + 1
    <3>1. 0 \in 0..(n - 1) /\ p_rpos + 0 = p_rpos /\ L + 0 + 1 = L + 1
      BY <2>1, <1>1, <1>2, <1>3
    <3> QED BY <3>1, <2>1, <2>4, <1>5
  <2>7. \A k \in 1..Len(Seen) : k # L + 1 => Seen'[k] = Seen[k]
    <3> SUFFICES ASSUME NEW k \in 1..(L + n), k # L + 1 PROVE Seen'[k] = Seen[k]
      BY <1>2
    <3>1. CASE k <= L
      BY <3>1, <2>4, <1>2
    <3>2. CASE k > L
      <4> DEFINE j == k - L - 1
      <4>1. j \in 1..(n - 1) /\ j \in 0..(n - 1) /\ L + j + 1 = k
        BY <3>2, <1>2
      <4> HIDE DEF j
      <4> QED BY <4>1, <2>4, <2>5, <1>2, <1>5, <1>6
    <3> QED BY <3>1, <3>2, <1>2
  <2>8. Len(Seen') = Len(Seen)
    BY <2>4, <1>2
  <2>9. Once(Seen') /\ All(Seen', typed + 1, lost \union {c})
        /\ InTurn(Seen', typed + 1, lost \union {c})
    <3> DEFINE m == L + 1
    <3>1. /\ m \in 1..Len(Seen) /\ Seen'[m] = typed + 1 /\ c = Seen[m]
          /\ \A k \in 1..Len(Seen) : k # m => Seen'[k] = Seen[k]
      BY <2>1, <2>6, <2>7
    <3> HIDE DEF m, c
    <3> QED BY <3>1, <2>4, <2>8, <1>2, <1>3, KeyReplaced
  <2> HIDE DEF c
  <2> QED BY <2>1, <2>2, <2>9, KeyPartsNext
<1> QED BY <1>7, <1>8

\* Reading k keys moves them from the buffer to what was read.
LEMMA KeysMoved ==
  ASSUME NEW g \in Seq(Keys), NEW rd \in Nat, NEW wr \in Nat, rd <= wr,
         NEW buf \in [Slots -> Keys], NEW k \in 0..(wr - rd)
  PROVE  /\ g \o Buffered(buf, rd, rd + k) \in Seq(Keys)
         /\ (g \o Buffered(buf, rd, rd + k)) \o Buffered(buf, rd + k, wr) = g \o Buffered(buf, rd, wr)
<1> DEFINE m == rd + k
           n == wr - rd
           g2 == g \o Buffered(buf, rd, m)
           s == g \o Buffered(buf, rd, wr)
           t == g2 \o Buffered(buf, m, wr)
<1>1. /\ m \in Nat /\ rd <= m /\ m <= wr /\ m - rd = k /\ wr - m = n - k /\ n \in Nat
      /\ k \in Nat /\ k <= n
  OBVIOUS
<1>2. Listed(g2, g, buf, rd, m)
  BY <1>1, SeenParts
<1>3. g2 \in Seq(Keys)
  BY <1>2 DEF Listed
<1> HIDE DEF m
<1>4. Listed(s, g, buf, rd, wr)
  BY SeenParts
<1>5. Listed(t, g2, buf, m, wr)
  <2> HIDE DEF g2
  <2> QED BY <1>1, <1>3, SeenParts
<1> DEFINE L == Len(g)
<1> HIDE DEF g2, s, t
<1>6. /\ L \in Nat /\ s \in Seq(Keys) /\ t \in Seq(Keys) /\ Len(g2) = L + k
      /\ Len(s) = L + n /\ Len(t) = L + n
  <2>1. L \in Nat /\ Len(g2) = L + (m - rd) /\ s \in Seq(Keys) /\ Len(s) = L + n
        /\ t \in Seq(Keys) /\ Len(t) = Len(g2) + (wr - m)
    BY <1>2, <1>4, <1>5 DEF Listed
  <2>2. Len(t) = (L + k) + (n - k) /\ Len(g2) = L + k
    BY <2>1, <1>1
  <2>3. (L + k) + (n - k) = L + n
    BY <2>1, <1>1
  <2> QED BY <2>1, <2>2, <2>3
<1>7. ASSUME NEW j \in 1..(L + n) PROVE t[j] = s[j]
  <2>1. CASE j <= L
    <3>1. j \in 1..L /\ j \in 1..(L + k)
      BY <2>1, <1>1, <1>6
    <3>2. s[j] = g[j] /\ g2[j] = g[j]
      BY <3>1, <1>2, <1>4 DEF Listed
    <3>3. t[j] = g2[j]
      BY <3>1, <1>5, <1>6 DEF Listed
    <3> QED BY <3>2, <3>3
  <2>2. CASE j > L /\ j <= L + k
    <3> DEFINE i == j - L - 1
    <3>1. i \in 0..(k - 1) /\ i \in 0..(n - 1) /\ L + i + 1 = j /\ j \in 1..(L + k)
          /\ (m - rd) - 1 = k - 1
      BY <2>2, <1>1, <1>6
    <3> HIDE DEF i
    <3>2. s[j] = buf[(rd + i) % STDIN_BUFSIZE]
      BY <3>1, <1>4 DEF Listed
    <3>3. g2[j] = buf[(rd + i) % STDIN_BUFSIZE]
      BY <3>1, <1>1, <1>2 DEF Listed
    <3>4. t[j] = g2[j]
      BY <3>1, <1>5, <1>6 DEF Listed
    <3> QED BY <3>2, <3>3, <3>4
  <2>3. CASE j > L + k
    <3> DEFINE i == j - L - 1
               h == i - k
    <3>1. i \in 0..(n - 1) /\ L + i + 1 = j /\ h \in 0..(n - k - 1)
          /\ (L + k) + h + 1 = j /\ rd + i = m + h
      BY <2>3, <1>1, <1>6 DEF m
    <3> HIDE DEF i, h
    <3>2. s[j] = buf[(rd + i) % STDIN_BUFSIZE]
      BY <3>1, <1>4 DEF Listed
    <3>3. t[j] = buf[(m + h) % STDIN_BUFSIZE]
      <4>1. h \in 0..(wr - m - 1) /\ Len(g2) + h + 1 = j
        BY <3>1, <1>1, <1>6
      <4> QED BY <4>1, <1>5 DEF Listed
    <3> QED BY <3>1, <3>2, <3>3
  <2> QED BY <2>1, <2>2, <2>3, <1>1, <1>6
<1>8. t = s
  <2>1. DOMAIN s = 1..(L + n) /\ DOMAIN t = 1..(L + n)
    BY <1>6
  <2>2. s = [j \in 1..(L + n) |-> s[j]] /\ t = [j \in 1..(L + n) |-> t[j]]
    BY <2>1, <1>6
  <2> QED BY <2>2, <1>7
<1> QED BY <1>3, <1>8 DEF g2, s, t, m

LEMMA KeyRead ==
  ASSUME KeyInv, NEW r \in Readers, NEW n \in Nat, NEW q, ReadLoop(r, n, q)
  PROVE  KeyInv'
<1> DEFINE k == IF n <= p_wpos - p_rpos THEN n ELSE p_wpos - p_rpos
<1>1. /\ got \in Seq(Keys) /\ stdin_buffer \in [Slots -> Keys]
      /\ p_rpos \in Nat /\ p_wpos \in Nat /\ p_rpos <= p_wpos
      /\ Seen = got \o Buffered(stdin_buffer, p_rpos, p_wpos)
  BY SeenIs DEF KeyInv
<1>2. k \in 0..(p_wpos - p_rpos)
  BY <1>1
<1>3. /\ got' = got \o [i \in 1..k |-> CharAt(i - 1)] /\ p_rpos' = p_rpos + k
      /\ UNCHANGED <<stdin_buffer, p_wpos, typed, lost>>
  BY DEF ReadLoop, Advance
<1> HIDE DEF k
<1>4. got' = got \o Buffered(stdin_buffer, p_rpos, p_rpos + k)
  <2>1. (p_rpos + k) - p_rpos = k
    BY <1>1, <1>2
  <2> QED BY <2>1, <1>3 DEF Buffered, CharAt
<1>5. /\ got' \in Seq(Keys)
      /\ got' \o Buffered(stdin_buffer, p_rpos + k, p_wpos) = Seen
  BY <1>1, <1>2, <1>4, KeysMoved
<1>6. KeyTypes'
  <2>1. /\ p_wpos \in 0..MaxKeys /\ p_wpos - p_rpos <= STDIN_BUFSIZE
        /\ STDIN_BUFSIZE \in Nat /\ MaxKeys \in Nat /\ typed \in 0..MaxKeys
        /\ lost \subseteq 1..MaxKeys
    BY StdinAssumption DEF KeyInv, KeyTypes
  <2>2. /\ p_rpos + k \in 0..MaxKeys /\ 0 <= p_wpos - (p_rpos + k)
        /\ p_wpos - (p_rpos + k) <= STDIN_BUFSIZE
    BY <2>1, <1>1, <1>2
  <2> QED BY <2>1, <2>2, <1>1, <1>3, <1>5 DEF KeyTypes, Keys
<1>7. Seen' = Seen
  BY <1>3, <1>5, <1>6, SeenNext
<1>8. TypedOK'
  BY <1>3 DEF KeyInv, TypedOK
<1> QED BY <1>3, <1>6, <1>7, <1>8, KeyParts, KeyPartsNext

LEMMA KeyFrame ==
  ASSUME KeyInv, UNCHANGED <<stdin_buffer, p_rpos, p_wpos, typed, got, lost>> PROVE KeyInv'
<1>1. Seen' = Seen
  BY DEF Seen, Unread, CharAt
<1>2. KeyTypes' /\ TypedOK'
  BY DEF KeyInv, KeyTypes, TypedOK
<1> QED BY <1>1, <1>2, KeyParts, KeyPartsNext

----------------------------------------------------------------------------
(* Readers *)

\* What a reader's state says about the queue.
Queued(r, p, f) == p[r] \in {"sleep", "ready"} /\ f[r] = "WT_INTERRUPTED"
In(q, r) == \E k \in 1..Len(q) : q[k] = r

LEMMA QueueIs ==
  QueueOK <=> /\ Once(wait_queue)
              /\ \A r \in Readers : In(wait_queue, r) <=> Queued(r, pc, wakeup_flags)
BY DEF QueueOK, Once, InQueue, In, Queued

LEMMA QueueNext ==
  QueueOK' <=> /\ Once(wait_queue')
               /\ \A r \in Readers : In(wait_queue', r) <=> Queued(r, pc', wakeup_flags')
BY DEF QueueOK, Once, InQueue, In, Queued

LEMMA Appended ==
  ASSUME NEW q \in Seq(Readers), NEW x \in Readers, Once(q), ~In(q, x)
  PROVE  /\ Append(q, x) \in Seq(Readers) /\ Once(Append(q, x))
         /\ \A y : In(Append(q, x), y) <=> In(q, y) \/ y = x
<1> DEFINE a == Append(q, x)
<1>1. /\ a \in Seq(Readers) /\ Len(a) = Len(q) + 1 /\ Len(q) \in Nat
      /\ a[Len(q) + 1] = x /\ \A i \in 1..Len(q) : a[i] = q[i]
  OBVIOUS
<1> HIDE DEF a
<1>2. Once(a)
  BY <1>1 DEF Once, In
<1>3. ASSUME NEW y PROVE In(a, y) <=> In(q, y) \/ y = x
  BY <1>1 DEF In
<1> QED BY <1>1, <1>2, <1>3 DEF a

\* wait_current_del takes out the reader and nobody else.
LEMMA Removed ==
  ASSUME wait_queue \in Seq(Readers), Once(wait_queue), NEW r \in Readers
  PROVE  LET q == wait_current_del(r) IN
         /\ q \in Seq(Readers) /\ Once(q)
         /\ \A y : In(q, y) <=> In(wait_queue, y) /\ y # r
<1>1. CASE ~InQueue(r)
  BY <1>1 DEF wait_current_del, InQueue, In
<1>2. CASE InQueue(r)
  <2> DEFINE n == Len(wait_queue)
             k == CHOOSE j \in 1..n : wait_queue[j] = r
             q == wait_current_del(r)
  <2>1. k \in 1..n /\ wait_queue[k] = r /\ n \in Nat
    BY <1>2 DEF InQueue
  <2>2. q = SubSeq(wait_queue, 1, k - 1) \o SubSeq(wait_queue, k + 1, n)
    BY <1>2 DEF wait_current_del
  <2> HIDE DEF k, q
  <2> DEFINE a == SubSeq(wait_queue, 1, k - 1)
             b == SubSeq(wait_queue, k + 1, n)
  <2>3. /\ a \in Seq(Readers) /\ Len(a) = k - 1 /\ \A j \in 1..(k - 1) : a[j] = wait_queue[j]
    BY <2>1
  <2>4. /\ b \in Seq(Readers) /\ Len(b) = n - k
        /\ \A j \in 1..(n - k) : b[j] = wait_queue[j + k]
    BY <2>1
  <2>5. q = a \o b
    BY <2>2
  <2> HIDE DEF a, b
  <2>6. q \in Seq(Readers) /\ Len(q) = n - 1
    BY <2>1, <2>3, <2>4, <2>5
  <2>7. ASSUME NEW j \in 1..(n - 1)
        PROVE  q[j] = IF j < k THEN wait_queue[j] ELSE wait_queue[j + 1]
    <3>1. CASE j < k
      BY <3>1, <2>1, <2>3, <2>4, <2>5
    <3>2. CASE ~(j < k)
      <4> DEFINE i == j - (k - 1)
      <4>1. i \in 1..(n - k) /\ j = Len(a) + i /\ i + k = j + 1
        BY <3>2, <2>1, <2>3
      <4> HIDE DEF i
      <4>2. q[j] = b[i]
        BY <4>1, <2>3, <2>4, <2>5
      <4> QED BY <4>1, <4>2, <3>2, <2>4
    <3> QED BY <3>1, <3>2
  <2>8. Once(q)
    <3> SUFFICES ASSUME NEW i \in 1..(n - 1), NEW j \in 1..(n - 1), q[i] = q[j] PROVE i = j
      BY <2>6 DEF Once
    <3> DEFINE up(x) == IF x < k THEN x ELSE x + 1
    <3>1. /\ up(i) \in 1..n /\ up(j) \in 1..n /\ q[i] = wait_queue[up(i)]
          /\ q[j] = wait_queue[up(j)]
      BY <2>1, <2>7
    <3>2. up(i) = up(j)
      BY <3>1 DEF Once
    <3> QED BY <3>2, <2>1
  <2>9. ASSUME NEW y PROVE In(q, y) <=> In(wait_queue, y) /\ y # r
    <3>1. ASSUME In(q, y) PROVE In(wait_queue, y) /\ y # r
      <4>1. PICK j \in 1..(n - 1) : q[j] = y
        BY <3>1, <2>6 DEF In
      <4> DEFINE i == IF j < k THEN j ELSE j + 1
      <4>2. i \in 1..n /\ i # k /\ wait_queue[i] = y
        BY <4>1, <2>1, <2>7
      <4> HIDE DEF i
      <4>3. y # r
        BY <4>2, <2>1 DEF Once
      <4> QED BY <4>2, <4>3 DEF In
    <3>2. ASSUME In(wait_queue, y), y # r PROVE In(q, y)
      <4>1. PICK i \in 1..n : wait_queue[i] = y
        BY <3>2 DEF In
      <4>2. i # k
        BY <4>1, <3>2, <2>1
      <4> DEFINE j == IF i < k THEN i ELSE i - 1
      <4>3. j \in 1..(n - 1) /\ q[j] = y
        BY <4>1, <4>2, <2>1, <2>7
      <4> HIDE DEF j
      <4> QED BY <4>3, <2>6 DEF In
    <3> QED BY <3>1, <3>2
  <2> QED BY <2>6, <2>8, <2>9 DEF q
<1> QED BY <1>1, <1>2

\* The loop of dev_stdin_read, entered with a queue without the reader.
LEMMA ReaderLoop ==
  ASSUME KeyInv, ReaderInv, NEW r \in Readers, NEW n \in 0..MaxLen,
         NEW q \in Seq(Readers), Once(q), \A y : In(q, y) <=> In(wait_queue, y) /\ y # r,
         ReadLoop(r, n, q)
  PROVE  ReaderInv'
<1> DEFINE k == IF n <= p_wpos - p_rpos THEN n ELSE p_wpos - p_rpos
<1>1. p_rpos \in Nat /\ p_wpos \in Nat /\ p_rpos <= p_wpos /\ MaxLen \in Nat /\ n \in Nat
  BY SeenIs, StdinAssumption DEF KeyInv
<1>2. /\ k \in 0..n /\ k <= p_wpos - p_rpos /\ n - k \in 0..MaxLen
      /\ k # n => p_rpos + k = p_wpos
      /\ p_rpos = p_wpos => p_rpos + k = p_wpos
  BY <1>1
<1>3. /\ p_rpos' = p_rpos + k /\ p_wpos' = p_wpos /\ killed' = killed
      /\ need' = [need EXCEPT ![r] = n - k]
      /\ IF k = n THEN pc' = ToUser(r) /\ wait_queue' = q /\ UNCHANGED wakeup_flags
         ELSE /\ pc' = [pc EXCEPT ![r] = "sleep"] /\ wait_queue' = Append(q, r)
              /\ wakeup_flags' = [wakeup_flags EXCEPT ![r] = "WT_INTERRUPTED"]
  BY DEF ReadLoop, Advance
<1> HIDE DEF k
<1>4. /\ ReaderTypes /\ Once(wait_queue) /\ SleepOK
      /\ \A y \in Readers : In(wait_queue, y) <=> Queued(y, pc, wakeup_flags)
  BY QueueIs DEF ReaderInv
<1>5. /\ need' \in [Readers -> 0..MaxLen] /\ killed' \in [Readers -> BOOLEAN]
  BY <1>2, <1>3, <1>4 DEF ReaderTypes
<1>6. ASSUME NEW y \in Readers, pc[y] = "sleep"
      PROVE  wakeup_flags[y] = "WT_INTERRUPTED" /\ p_rpos' = p_wpos'
  BY <1>2, <1>3, <1>4, <1>6 DEF SleepOK
<1>7. CASE k = n
  <2>1. pc' = ToUser(r) /\ wait_queue' = q /\ wakeup_flags' = wakeup_flags
    BY <1>3, <1>7
  <2>2. /\ pc' \in [Readers -> {"user", "sleep", "ready", "dead"}]
        /\ pc'[r] \in {"user", "dead"} /\ \A y \in Readers \ {r} : pc'[y] = pc[y]
    BY <2>1, <1>4 DEF ToUser, ReaderTypes
  <2>3. \A y \in Readers : In(wait_queue', y) <=> Queued(y, pc', wakeup_flags')
    BY <2>1, <2>2, <1>4 DEF Queued
  <2>4. QueueOK'
    BY <2>1, <2>3, QueueNext
  <2>5. SleepOK'
    BY <2>1, <2>2, <1>6 DEF SleepOK
  <2> QED BY <2>1, <2>2, <2>4, <2>5, <1>4, <1>5 DEF ReaderInv, ReaderTypes
<1>8. CASE k # n
  <2>1. /\ pc' = [pc EXCEPT ![r] = "sleep"] /\ wait_queue' = Append(q, r)
        /\ wakeup_flags' = [wakeup_flags EXCEPT ![r] = "WT_INTERRUPTED"]
    BY <1>3, <1>8
  <2>2. /\ pc' \in [Readers -> {"user", "sleep", "ready", "dead"}]
        /\ pc'[r] = "sleep" /\ wakeup_flags'[r] = "WT_INTERRUPTED"
        /\ \A y \in Readers \ {r} : pc'[y] = pc[y] /\ wakeup_flags'[y] = wakeup_flags[y]
        /\ wakeup_flags' \in [Readers -> {"WT_KBD", "WT_INTERRUPTED"}]
    BY <2>1, <1>4 DEF ReaderTypes
  <2>3. /\ wait_queue' \in Seq(Readers) /\ Once(wait_queue')
        /\ \A y : In(wait_queue', y) <=> In(q, y) \/ y = r
    BY <2>1, Appended
  <2>4. \A y \in Readers : In(wait_queue', y) <=> Queued(y, pc', wakeup_flags')
    BY <2>2, <2>3, <1>4 DEF Queued
  <2>5. QueueOK'
    BY <2>3, <2>4, QueueNext
  <2>6. p_rpos' = p_wpos'
    BY <1>2, <1>3, <1>8
  <2>7. SleepOK'
    BY <2>2, <2>6, <1>6 DEF SleepOK
  <2> QED BY <2>2, <2>3, <2>5, <2>7, <1>5 DEF ReaderInv, ReaderTypes
<1> QED BY <1>7, <1>8

\* A key wakes everybody in the queue; nobody sleeps outside it.
LEMMA ReaderWrite ==
  ASSUME ReaderInv, wakeup_queue, UNCHANGED <<need, killed>> PROVE ReaderInv'
<1>1. /\ ReaderTypes /\ SleepOK
      /\ \A y \in Readers : In(wait_queue, y) <=> Queued(y, pc, wakeup_flags)
  BY QueueIs DEF ReaderInv
<1>2. /\ wait_queue' = <<>>
      /\ pc' = [r \in Readers |-> IF In(wait_queue, r) THEN "ready" ELSE pc[r]]
      /\ wakeup_flags' = [r \in Readers |-> IF In(wait_queue, r) THEN "WT_KBD"
                                            ELSE wakeup_flags[r]]
  BY DEF wakeup_queue, InQueue, In
<1>3. ReaderTypes'
  BY <1>1, <1>2 DEF ReaderTypes
<1>4. \A y \in Readers : ~Queued(y, pc', wakeup_flags') /\ pc'[y] # "sleep"
  BY <1>1, <1>2 DEF Queued, SleepOK
<1>5. Once(wait_queue') /\ \A y \in Readers : ~In(wait_queue', y)
  BY <1>2 DEF Once, In
<1>6. QueueOK'
  BY <1>4, <1>5, QueueNext
<1>7. SleepOK'
  BY <1>4 DEF SleepOK
<1> QED BY <1>3, <1>6, <1>7 DEF ReaderInv

LEMMA ReaderFrame ==
  ASSUME ReaderInv, UNCHANGED <<p_rpos, p_wpos>>, ReaderTypes', QueueOK',
         \A y \in Readers : pc'[y] = "sleep" =>
            pc[y] = "sleep" /\ wakeup_flags'[y] = wakeup_flags[y]
  PROVE  ReaderInv'
BY DEF ReaderInv, SleepOK

LEMMA ReaderInterrupted ==
  ASSUME ReaderInv, NEW r \in Readers, Interrupted(r) PROVE ReaderInv'
<1>1. /\ ReaderTypes /\ Once(wait_queue) /\ MaxLen \in Nat
      /\ \A y \in Readers : In(wait_queue, y) <=> Queued(y, pc, wakeup_flags)
  BY QueueIs, StdinAssumption DEF ReaderInv
<1>2. /\ wait_queue' = wait_current_del(r) /\ pc' = ToUser(r)
      /\ need' = [need EXCEPT ![r] = 0] /\ UNCHANGED <<p_rpos, p_wpos, wakeup_flags, killed>>
  BY DEF Interrupted
<1>3. /\ wait_queue' \in Seq(Readers) /\ Once(wait_queue')
      /\ \A y : In(wait_queue', y) <=> In(wait_queue, y) /\ y # r
  BY <1>1, <1>2, Removed DEF ReaderTypes
<1>4. /\ pc' \in [Readers -> {"user", "sleep", "ready", "dead"}]
      /\ pc'[r] \in {"user", "dead"} /\ \A y \in Readers \ {r} : pc'[y] = pc[y]
  BY <1>1, <1>2 DEF ToUser, ReaderTypes
<1>5. \A y \in Readers : In(wait_queue', y) <=> Queued(y, pc', wakeup_flags')
  BY <1>1, <1>2, <1>3, <1>4 DEF Queued
<1>6. QueueOK'
  BY <1>3, <1>5, QueueNext
<1>7. ReaderTypes'
  <2>1. need' \in [Readers -> 0..MaxLen]
    <3>1. 0 \in 0..MaxLen /\ need \in [Readers -> 0..MaxLen]
      BY <1>1 DEF ReaderTypes
    <3> QED BY <3>1, <1>2
  <2>2. killed' \in [Readers -> BOOLEAN]
    BY <1>1, <1>2 DEF ReaderTypes
  <2> QED BY <2>1, <2>2, <1>1, <1>2, <1>3, <1>4 DEF ReaderTypes
<1> QED BY <1>2, <1>4, <1>6, <1>7, ReaderFrame

LEMMA ReaderKill ==
  ASSUME ReaderInv, NEW r \in Readers, Kill(r) PROVE ReaderInv'
<1>1. /\ ReaderTypes /\ Once(wait_queue)
      /\ \A y \in Readers : In(wait_queue, y) <=> Queued(y, pc, wakeup_flags)
  BY QueueIs DEF ReaderInv
<1>2. /\ pc[r] \in {"sleep", "ready"} /\ killed' = [killed EXCEPT ![r] = TRUE]
      /\ pc' = [pc EXCEPT ![r] = "ready"]
      /\ UNCHANGED <<p_rpos, p_wpos, wait_queue, wakeup_flags, need>>
  BY DEF Kill
<1>3. /\ pc' \in [Readers -> {"user", "sleep", "ready", "dead"}]
      /\ pc'[r] = "ready" /\ \A y \in Readers \ {r} : pc'[y] = pc[y]
  BY <1>1, <1>2 DEF ReaderTypes
<1>4. \A y \in Readers : Queued(y, pc', wakeup_flags') <=> Queued(y, pc, wakeup_flags)
  BY <1>2, <1>3 DEF Queued
<1>5. QueueOK'
  BY <1>1, <1>2, <1>4, QueueNext
<1>6. ReaderTypes'
  <2>1. killed' \in [Readers -> BOOLEAN]
    BY <1>1, <1>2 DEF ReaderTypes
  <2> QED BY <2>1, <1>1, <1>2, <1>3 DEF ReaderTypes
<1> QED BY <1>2, <1>3, <1>5, <1>6, ReaderFrame

----------------------------------------------------------------------------
(* The theorems *)

LEMMA StdinInitOK == StdinInit => StdinInv
<1> SUFFICES ASSUME StdinInit PROVE StdinInv
  OBVIOUS
<1>1. STDIN_BUFSIZE \in Nat /\ MaxKeys \in Nat /\ MaxLen \in Nat /\ 0 \in 0..MaxKeys
  BY StdinAssumption
<1>2. KeyTypes /\ TypedOK
  BY <1>1 DEF StdinInit, KeyTypes, TypedOK
<1>3. ReaderTypes /\ SleepOK
  BY <1>1 DEF StdinInit, ReaderTypes, SleepOK
<1>4. QueueOK
  BY DEF StdinInit, QueueOK, InQueue
<1>5. Seen = <<>>
  <2>1. 1..(0 - 0) = {}
    OBVIOUS
  <2>2. Unread = <<>>
    BY <2>1 DEF Unread, StdinInit
  <2> QED BY <2>2 DEF Seen, StdinInit
<1>6. Once(Seen) /\ InTurn(Seen, typed, lost)
  BY <1>5 DEF Once, InTurn, StdinInit
<1>7. All(Seen, typed, lost)
  <2>1. (1..typed) \ lost = {} /\ Len(Seen) = 0 /\ 1..Len(Seen) = {}
    BY <1>5 DEF StdinInit
  <2>2. Cardinality({}) = 0
    BY FS_EmptySet
  <2> QED BY <2>1, <2>2 DEF All
<1> QED BY <1>2, <1>3, <1>4, <1>6, <1>7, KeyParts, Parts DEF ReaderInv

LEMMA StdinStepOK == StdinInv /\ [StdinNext]_stdinVars => StdinInv'
<1> SUFFICES ASSUME KeyInv, ReaderInv, [StdinNext]_stdinVars PROVE KeyInv' /\ ReaderInv'
  BY Parts, PartsNext
<1>1. CASE dev_stdin_write
  BY <1>1, KeyWrite, ReaderWrite DEF dev_stdin_write
<1>2. ASSUME NEW r \in Readers, NEW n \in 1..MaxLen, dev_stdin_read(r, n)
      PROVE  KeyInv' /\ ReaderInv'
  <2>1. pc[r] = "user" /\ ReadLoop(r, n, wait_queue) /\ n \in Nat /\ n \in 0..MaxLen
    BY <1>2, StdinAssumption DEF dev_stdin_read
  <2>2. /\ wait_queue \in Seq(Readers) /\ Once(wait_queue)
        /\ \A y : In(wait_queue, y) <=> In(wait_queue, y) /\ y # r
    <3>1. ~In(wait_queue, r)
      BY <2>1, QueueIs DEF ReaderInv, Queued
    <3> QED BY <3>1, QueueIs DEF ReaderInv, ReaderTypes
  <2> QED BY <2>1, <2>2, KeyRead, ReaderLoop
<1>3. ASSUME NEW r \in Readers, TryAgain(r) PROVE KeyInv' /\ ReaderInv'
  <2>1. ReadLoop(r, need[r], wait_current_del(r)) /\ need[r] \in 0..MaxLen
    BY <1>3 DEF TryAgain, ReaderInv, ReaderTypes
  <2>2. need[r] \in Nat
    BY <2>1, StdinAssumption
  <2> DEFINE q == wait_current_del(r)
  <2>3. /\ q \in Seq(Readers) /\ Once(q)
        /\ \A y : In(q, y) <=> In(wait_queue, y) /\ y # r
    BY Removed, QueueIs DEF ReaderInv, ReaderTypes
  <2> HIDE DEF q
  <2>4. ReadLoop(r, need[r], q)
    BY <2>1 DEF q
  <2> QED BY <2>1, <2>2, <2>3, <2>4, KeyRead, ReaderLoop
<1>4. ASSUME NEW r \in Readers, Interrupted(r) PROVE KeyInv' /\ ReaderInv'
  BY <1>4, KeyFrame, ReaderInterrupted DEF Interrupted
<1>5. ASSUME NEW r \in Readers, Kill(r) PROVE KeyInv' /\ ReaderInv'
  BY <1>5, KeyFrame, ReaderKill DEF Kill
<1>6. CASE UNCHANGED stdinVars
  <2>1. KeyInv'
    BY <1>6, KeyFrame DEF stdinVars
  <2>2. ReaderInv'
    BY <1>6 DEF stdinVars, ReaderInv, ReaderTypes, QueueOK, InQueue, SleepOK
  <2> QED BY <2>1, <2>2
<1> QED BY <1>1, <1>2, <1>3, <1>4, <1>5, <1>6 DEF StdinNext, Resume

\* The invariant that the results below rest on, over keys, reads and kills in
\* any order.
THEOREM StdinInvariant == StdinSpec => []StdinInv
BY StdinInitOK, StdinStepOK, PTL DEF StdinSpec

\* No reader sleeps in schedule() while there is a key for it: dev_stdin_write
\* wakes the whole queue, and a reader queues itself only at an empty buffer.
THEOREM WakeupCorrect == StdinSpec => []NoLostWakeup
<1>1. StdinInv => NoLostWakeup
  BY DEF StdinInv, SleepOK, NoLostWakeup
<1> QED BY <1>1, StdinInvariant, PTL

\* Every key typed is read once, waits in the buffer or was overwritten by a
\* later one, in order unless one was; and the wait queue names, once each, the
\* readers whose entry is on the stack of a read.
THEOREM BufferCorrect == StdinSpec => []BufferOK
<1>1. StdinInv => BufferOK
  BY DEF StdinInv, BufferOK
<1> QED BY <1>1, StdinInvariant, PTL
=============================================================================
