----------------------------- MODULE FileSystem -----------------------------
(***************************************************************************)
(* The file system on its disk, between the two programs that share it:    *)
(* the host tools that make the image (src/user/fs) and the kernel that    *)
(* reads it (src/src/fs, src/src/driver/hard_disk.c).  The tools write     *)
(* fields at byte offsets through stdio; the kernel reads whole sectors    *)
(* and cuts out what it needs.                                             *)
(*                                                                         *)
(* The disk is a function from addresses to cells, where a cell holds what *)
(* the code treats as one value: a field of a superblock, an inode or a    *)
(* directory entry, a bit of a bitmap, a byte of a file.  Sizes count      *)
(* cells.  An inode is no divisor of a sector and crosses its boundaries,  *)
(* as the 62 bytes of struct inode do; a directory entry divides it.       *)
(* A run of the image writer injects the files of one directory, each      *)
(* once; the kernel only reads, so what it returns for an image is an      *)
(* operator.                                                               *)
(***************************************************************************)
EXTENDS Integers, Sequences, SequencesExt, FiniteSets

CONSTANTS
  FS_BLOCK_SIZE, SECTOR_SIZE,
  BITS,                \* bits in a bitmap, FS_BLOCK_SIZE * 8 where a cell is a byte
  DIRECT,              \* the blocks of an inode that are used, 12
  NBLOCKS,             \* length of inode.blocks, 14
  INODE_TABLE_BLOCKS,  \* 100
  TOTAL_BLOCKS,        \* 25600
  Names,               \* names of the files in the directory
  Cut,                 \* what strncpy into name[28] leaves of a name
  Dot, DotDot,         \* "." and ".."
  Sizes,               \* file sizes
  UINT,                \* the values of a uint32_t, 2^32
  Ranges               \* pairs of start and length that are read

DIRENT_SIZE == 2                \* inode_num, name
INODE_SIZE  == 2 + NBLOCKS      \* type, size, blocks

FS_FILE == 1
FS_DIR  == 2
MAGIC   == 7                    \* 0x8899AABB

NONE == -1

Lower(a, b) == IF a <= b THEN a ELSE b
Higher(a, b) == IF a >= b THEN a ELSE b

\* No range that is read wraps around: process_exec, the one caller of read_file,
\* reads from 0.  The last two lines: the image has room for the inodes and the blocks that the
\* files of one directory can take.
ASSUME FileSystemAssumption ==
  /\ FS_BLOCK_SIZE % SECTOR_SIZE = 0 /\ FS_BLOCK_SIZE % DIRENT_SIZE = 0
  /\ BITS \in 2 .. FS_BLOCK_SIZE
  /\ DIRECT \in 1 .. NBLOCKS
  /\ Cut \in [Names -> Names] /\ \A n \in Names : Cut[Cut[n]] = Cut[n]
  /\ Names \cap {Dot, DotDot} = {}
  /\ \A r \in Ranges : r[1] + r[2] < UINT
  /\ Lower(BITS, 2 + Cardinality(Names)) * INODE_SIZE
       <= INODE_TABLE_BLOCKS * FS_BLOCK_SIZE
  /\ 3 + INODE_TABLE_BLOCKS + Lower(BITS, 1 + Cardinality(Names) * DIRECT)
       <= TOTAL_BLOCKS

VARIABLES
  disk,       \* file_system.img
  todo,       \* names of the files that are still to be injected
  injected    \* history: the files that were written, in order

vars == <<disk, todo, injected>>

Addresses == 0 .. TOTAL_BLOCKS * FS_BLOCK_SIZE - 1

\* Byte i, from 1, of the k-th file that is written.
Byte(k, i) == 1000 * k + i
Contents(k) == [i \in 1 .. injected[k].size |-> Byte(k, i)]

-----------------------------------------------------------------------------
(* fseek and fwrite, fseek and fread of the tools *)

fwrite(d, offset, cells) ==
  [a \in DOMAIN d |-> IF a \in offset .. offset + Len(cells) - 1
                      THEN cells[a - offset + 1] ELSE d[a]]

fread(d, offset, n) == [i \in 1 .. n |-> d[offset + i - 1]]

Superblock(c) == [inode_bitmap_blk |-> c[3], data_bitmap_blk |-> c[4],
                  inode_table_blk |-> c[5], data_blocks_start |-> c[6]]

Inode(c) == [type |-> c[1], size |-> c[2],
             blocks |-> [i \in 0 .. NBLOCKS - 1 |-> c[3 + i]]]

Dirent(c) == [inode_num |-> c[1], name |-> c[2]]

-----------------------------------------------------------------------------
(* mkfs.c *)

Padded(s, n) == [i \in 1 .. n |-> IF i <= Len(s) THEN s[i] ELSE 0]

mkfs ==
  LET start == 3 + INODE_TABLE_BLOCKS
      blank == [a \in Addresses |-> 0]
      super == fwrite(blank, 0, <<MAGIC, TOTAL_BLOCKS, 1, 2, 3, start>>)
      bits == fwrite(fwrite(super, FS_BLOCK_SIZE, Padded(<<1, 1>>, FS_BLOCK_SIZE)),
                     2 * FS_BLOCK_SIZE, Padded(<<1>>, FS_BLOCK_SIZE))
      root == fwrite(bits, 3 * FS_BLOCK_SIZE + INODE_SIZE,
                     Padded(<<FS_DIR, FS_BLOCK_SIZE, start>>, INODE_SIZE))
  IN fwrite(root, start * FS_BLOCK_SIZE, <<1, Dot, 1, DotDot>>)

Init == disk = mkfs /\ todo = Names /\ injected = <<>>

-----------------------------------------------------------------------------
(* fs_inject.c *)

sb == Superblock(fread(disk, 0, 6))

\* The clear bits of the bitmap in block blk, lowest first.
FreeBits(blk) ==
  LET bitmap == fread(disk, blk * FS_BLOCK_SIZE, BITS) IN
  SelectSeq([i \in 1 .. BITS |-> i - 1], LAMBDA b : bitmap[b + 1] = 0)

\* Mutant: a bit that is handed out stays clear.
SetNoBits(d, blk, bits) == d

\* The bitmap in block blk with these bits set.
SetBits(d, blk, bits) ==
  [a \in DOMAIN d |-> IF \E i \in DOMAIN bits : a = blk * FS_BLOCK_SIZE + bits[i]
                      THEN 1 ELSE d[a]]

find_free_blocks(needed) == SubSeq(FreeBits(sb.data_bitmap_blk), 1, needed)
get_free_inode_num == Head(FreeBits(sb.inode_bitmap_blk))

BlocksNeeded(size) == (size + FS_BLOCK_SIZE - 1) \div FS_BLOCK_SIZE

Allocatable(size) ==
  /\ Len(FreeBits(sb.data_bitmap_blk)) >= BlocksNeeded(size)
  /\ FreeBits(sb.inode_bitmap_blk) # <<>>

\* Mutant: a file that fills its last block has nothing of it written.
WriteSizeRest(i, n, size) == IF i = n THEN size % FS_BLOCK_SIZE ELSE FS_BLOCK_SIZE

\* How much of the i-th of n blocks is written.
WriteSize(i, n, size) ==
  IF i = n /\ size % FS_BLOCK_SIZE # 0 THEN size % FS_BLOCK_SIZE
  ELSE FS_BLOCK_SIZE

WriteData(d, blocks, size, k) ==
  LET WriteBlock(e, i) ==
        fwrite(e, blocks[i] * FS_BLOCK_SIZE,
               [j \in 1 .. WriteSize(i, Len(blocks), size) |->
                  Byte(k, (i - 1) * FS_BLOCK_SIZE + j)])
  IN FoldLeft(WriteBlock, d, [i \in DOMAIN blocks |-> i])

write_inode_to_disk(d, inode_num, cells) ==
  fwrite(d, sb.inode_table_blk * FS_BLOCK_SIZE + inode_num * INODE_SIZE,
         Padded(cells, INODE_SIZE))

EntriesPerBlock == FS_BLOCK_SIZE \div DIRENT_SIZE

\* The free slots of the root directory, in the first block of inode 1.
RootBlock ==
  Inode(fread(disk, sb.inode_table_blk * FS_BLOCK_SIZE + INODE_SIZE,
              INODE_SIZE)).blocks[0]
Slot(i) == RootBlock * FS_BLOCK_SIZE + i * DIRENT_SIZE
FreeSlots ==
  {i \in 0 .. EntriesPerBlock - 1 :
     Dirent(fread(disk, Slot(i), DIRENT_SIZE)).inode_num = 0}

\* Mutant: the loop goes on after it has found a free slot.
LastFreeSlot == CHOOSE i \in FreeSlots : \A j \in FreeSlots : j <= i

FreeSlot == CHOOSE i \in FreeSlots : \A j \in FreeSlots : i <= j

\* A full directory is reported and nothing is taken back.
add_dirent_to_root(d, name, inode_num) ==
  IF FreeSlots = {} THEN d
  ELSE fwrite(d, Slot(FreeSlot), <<inode_num, Cut[name]>>)

\* A file of more than DIRECT blocks is refused.
InjectTooLarge(name, size) ==
  /\ name \in todo
  /\ BlocksNeeded(size) > DIRECT
  /\ todo' = todo \ {name}
  /\ UNCHANGED <<disk, injected>>

\* So is one for which there are not enough blocks or no inode; the bitmaps in
\* memory are thrown away.
InjectNoSpace(name, size) ==
  /\ name \in todo
  /\ BlocksNeeded(size) <= DIRECT
  /\ ~Allocatable(size)
  /\ todo' = todo \ {name}
  /\ UNCHANGED <<disk, injected>>

inject_file(name, size) ==
  /\ name \in todo
  /\ BlocksNeeded(size) <= DIRECT
  /\ Allocatable(size)
  /\ LET bits == find_free_blocks(BlocksNeeded(size))
         inode_num == get_free_inode_num
         blocks == [i \in DOMAIN bits |-> sb.data_blocks_start + bits[i]]
         d1 == SetBits(disk, sb.data_bitmap_blk, bits)
         d2 == SetBits(d1, sb.inode_bitmap_blk, <<inode_num>>)
         d3 == WriteData(d2, blocks, size, Len(injected) + 1)
         d4 == write_inode_to_disk(d3, inode_num, <<FS_FILE, size>> \o blocks)
     IN /\ disk' = add_dirent_to_root(d4, name, inode_num)
        /\ injected' = Append(injected,
             [name |-> Cut[name], size |-> size, blocks |-> blocks,
              inode_num |-> inode_num, listed |-> FreeSlots # {}])
  /\ todo' = todo \ {name}

\* The image writer has done its directory.
Done == todo = {} /\ UNCHANGED vars

Next ==
  \/ \E name \in Names, size \in Sizes :
       \/ InjectTooLarge(name, size)
       \/ InjectNoSpace(name, size)
       \/ inject_file(name, size)
  \/ Done

Spec == Init /\ [][Next]_vars

-----------------------------------------------------------------------------
(* hard_disk.c *)

read_sector(sector) == fread(disk, sector * SECTOR_SIZE, SECTOR_SIZE)

read_block(block_num) ==
  LET sectors == FS_BLOCK_SIZE \div SECTOR_SIZE
  IN FlattenSeq([i \in 1 .. sectors |-> read_sector(block_num * sectors + i - 1)])

\* Any range: sector by sector, the part of each that lies in the range.
read_hard_disk(start, length) ==
  LET end == start + length
      start_sector == start \div SECTOR_SIZE
      end_sector == (end + SECTOR_SIZE - 1) \div SECTOR_SIZE
      Copied(i) ==
        LET from == Higher(i * SECTOR_SIZE, start)
            to == Lower((i + 1) * SECTOR_SIZE, end)
        IN SubSeq(read_sector(i), from - i * SECTOR_SIZE + 1, to - i * SECTOR_SIZE)
  IN FlattenSeq([k \in 1 .. end_sector - start_sector |->
                   Copied(start_sector + k - 1)])

-----------------------------------------------------------------------------
(* ext2_fs.c, behind the functions of vfs.c *)

\* init_ext2_fs
current_superblock == Superblock(read_hard_disk(0, 6))

ext2_read_inode(inode_num) ==
  Inode(read_hard_disk(current_superblock.inode_table_blk * FS_BLOCK_SIZE
                         + inode_num * INODE_SIZE, INODE_SIZE))

\* The used entries of the directory, in the order of the two loops.
Entries(dir_inode) ==
  LET blocks == SelectSeq([i \in 1 .. DIRECT |-> dir_inode.blocks[i - 1]],
                          LAMBDA b : b # 0)
      In(b) == LET block_buf == read_block(b)
               IN [j \in 1 .. EntriesPerBlock |->
                     Dirent(SubSeq(block_buf, (j - 1) * DIRENT_SIZE + 1,
                                   j * DIRENT_SIZE))]
  IN SelectSeq(FlattenSeq([i \in DOMAIN blocks |-> In(blocks[i])]),
               LAMBDA e : e.inode_num # 0)

current_dir == ext2_read_inode(1)

ext2_find_file_in_dir(dir_inode, filename) ==
  LET hits == SelectSeq(Entries(dir_inode), LAMBDA e : e.name = filename)
  IN IF dir_inode.type # FS_DIR \/ hits = <<>> THEN NONE ELSE Head(hits).inode_num

\* stat_file: the size, or -1.
ext2_fs_stat_file(filename) ==
  LET inode_num == ext2_find_file_in_dir(current_dir, filename)
  IN IF inode_num = NONE THEN NONE ELSE ext2_read_inode(inode_num).size

\* list_dir: what is printed for each entry.
ext2_fs_list_dir ==
  LET entries == Entries(current_dir)
  IN [i \in DOMAIN entries |->
        <<entries[i].name, ext2_read_inode(entries[i].inode_num).size>>]

\* The loop of read_file over the blocks from start on, for a length that ends
\* in the file.
ReadBlocks(file_inode, start, length) ==
  LET start_blk_idx == start \div FS_BLOCK_SIZE
      Step(s, idx) ==
        LET blk == file_inode.blocks[idx]
            to_read == Lower(FS_BLOCK_SIZE - s.offset_in_blk,
                             length - Len(s.buffer))
        IN IF Len(s.buffer) >= length \/ s.broken THEN s
           ELSE IF blk = 0 THEN [s EXCEPT !.broken = TRUE]
           ELSE [s EXCEPT !.offset_in_blk = 0,
                          !.buffer = @ \o SubSeq(read_block(blk),
                                                 s.offset_in_blk + 1,
                                                 s.offset_in_blk + to_read)]
  IN FoldLeft(Step, [buffer |-> <<>>, offset_in_blk |-> start % FS_BLOCK_SIZE,
                     broken |-> FALSE],
              [i \in 1 .. DIRECT - start_blk_idx |-> start_blk_idx + i - 1]).buffer

\* read_file: its result, and what it puts into the buffer.
ext2_fs_read_data(filename, start, length) ==
  LET inode_num == ext2_find_file_in_dir(current_dir, filename)
      file_inode == ext2_read_inode(inode_num)
      size == file_inode.size
      to_end == IF (start + length) % UINT > size THEN size - start ELSE length
      buffer == IF inode_num = NONE \/ start >= size THEN <<>>
                ELSE ReadBlocks(file_inode, start, to_end)
  IN [result |-> IF inode_num = NONE THEN -1 ELSE Len(buffer), buffer |-> buffer]

-----------------------------------------------------------------------------
\* The file that a name stands for: the first one with an entry of that name.
Files(filename) ==
  {k \in DOMAIN injected : injected[k].listed /\ injected[k].name = filename}
FileOf(filename) ==
  CHOOSE k \in Files(filename) : \A l \in Files(filename) : k <= l

\* What inject_file wrote is what process_exec gets: stat_file gives the size of
\* the file and read_file its bytes and their number, as a whole and for ranges
\* that start or end inside a block, whatever else the image holds and whether or
\* not later files were refused; a file without an entry is not found, which an
\* empty one is.
ReadBack ==
  \A n \in Names :
    IF Files(n) = {}
    THEN ext2_fs_stat_file(n) = NONE /\ ext2_fs_read_data(n, 0, 1).result = -1
    ELSE LET k == FileOf(n)
             size == injected[k].size
         IN /\ ext2_fs_stat_file(n) = size
            /\ \A r \in Ranges \cup {<<0, size>>} :
                 LET read == ext2_fs_read_data(n, r[1], r[2])
                 IN /\ read.buffer = SubSeq(Contents(k), r[1] + 1,
                                            Lower(r[1] + r[2], size))
                    /\ read.result = Len(read.buffer)

\* The kernel lists what the image writer put in the root directory, in order:
\* the tools' and the kernel's loops over slots agree on where an entry is.
ListingExact ==
  ext2_fs_list_dir =
    <<<<Dot, FS_BLOCK_SIZE>>, <<DotDot, FS_BLOCK_SIZE>>>>
      \o LET listed == SelectSeq(injected, LAMBDA f : f.listed)
         IN [i \in DOMAIN listed |-> <<listed[i].name, listed[i].size>>]

\* Every inode and data block has one owner and every owner's bit is set: no
\* two files, nor a file and the root directory, share a block, and a refused
\* file leaves no bit behind unless the directory alone was full.
BitmapsExact ==
  LET SetIn(blk) == {b \in 0 .. BITS - 1 : disk[blk * FS_BLOCK_SIZE + b] # 0}
      Owned(k) == {b - sb.data_blocks_start : b \in ToSet(injected[k].blocks)}
  IN /\ SetIn(sb.data_bitmap_blk) = {0} \cup UNION {Owned(k) : k \in DOMAIN injected}
     /\ SetIn(sb.inode_bitmap_blk)
          = {0, 1} \cup {injected[k].inode_num : k \in DOMAIN injected}
     /\ \A k \in DOMAIN injected :
          /\ 0 \notin Owned(k) /\ injected[k].inode_num \notin {0, 1}
          /\ IsInjective(injected[k].blocks)
          /\ \A l \in DOMAIN injected \ {k} :
               /\ Owned(k) \cap Owned(l) = {}
               /\ injected[k].inode_num # injected[l].inode_num
=============================================================================
