------------------------------ MODULE DiskLayout ------------------------------
(***************************************************************************)
(* The bitmaps, inodes and blocks of easy-fs as pure operators             *)
(* (easy-fs/src/bitmap.rs, layout.rs, efs.rs and vfs.rs).                  *)
(*                                                                         *)
(* They act on a record fs: the two bitmaps, the inodes, and the blocks of *)
(* the data area as the block cache presents them.  A block has BLOCK_SZ   *)
(* words; a word is a byte of a file or, in an index block, the number of  *)
(* a block.  The first assertion or unwrap to fail is kept in bad.         *)
(***************************************************************************)
EXTENDS Integers, FiniteSetsExt, SequencesExt

CONSTANTS
  BLOCK_SZ,              \* words of a block, entries of an index block
  INODE_DIRECT_COUNT,
  InodeBits, DataBits,   \* bits of the two bitmaps
  DataBlocks             \* blocks of the data area, at most DataBits

ASSUME DiskLayoutAssumption ==
  /\ BLOCK_SZ \in Nat \ {0, 1} /\ INODE_DIRECT_COUNT \in Nat \ {0}
  /\ InodeBits \in Nat \ {0} /\ DataBits \in Nat /\ DataBlocks \in 1..DataBits

DIRECT_BOUND == INODE_DIRECT_COUNT
INODE_INDIRECT1_COUNT == BLOCK_SZ
INDIRECT1_BOUND == DIRECT_BOUND + INODE_INDIRECT1_COUNT
INDIRECT2_BOUND == INDIRECT1_BOUND + INODE_INDIRECT1_COUNT * INODE_INDIRECT1_COUNT

Block == 1..DataBlocks       \* data_area_start_block is 1
Offset == 0..(BLOCK_SZ - 1)
ZeroBlock == [i \in Offset |-> 0]

\* DiskInode::initialize
NewInode == [size |-> 0, direct |-> [k \in 0..(DIRECT_BOUND - 1) |-> 0],
             indirect1 |-> 0, indirect2 |-> 0]

Fail(fs, why) == IF fs.bad = "no" THEN [fs EXCEPT !.bad = why] ELSE fs

-----------------------------------------------------------------------------
\* Bitmap::alloc takes the lowest clear bit; None is unwrapped.
FirstClear(bitmap, bits) == Min((0..(bits - 1)) \ bitmap)
Full(bitmap, bits) == (0..(bits - 1)) \subseteq bitmap

\* The bitmap may have more bits than the data area has blocks.  A block past
\* the data area is past the end of the device: the driver fails at the first
\* access, which is in the same operation since the last block is written.
alloc_data(fs) ==
  LET bit == FirstClear(fs.data_bitmap, DataBits)
  IN IF Full(fs.data_bitmap, DataBits) THEN Fail(fs, "disk full")
     ELSE IF bit + 1 \notin Block THEN Fail(fs, "past the device")
     ELSE [fs EXCEPT !.data_bitmap = @ \cup {bit}, !.new_blocks = Append(@, bit + 1)]

\* A mutant: a block is freed as it is.
DeallocUncleared(fs, disk_id) == [fs EXCEPT !.data_bitmap = @ \ {disk_id - 1}]

\* The block is cleared, then its bit.
dealloc_data(fs, disk_id) ==
  IF disk_id \notin Block \/ disk_id - 1 \notin fs.data_bitmap THEN Fail(fs, "dealloc")
  ELSE [fs EXCEPT !.blocks[disk_id] = ZeroBlock, !.data_bitmap = @ \ {disk_id - 1}]

-----------------------------------------------------------------------------
_data_blocks(size) == (size + BLOCK_SZ - 1) \div BLOCK_SZ

\* A mutant: a full second level index is counted as one that has begun.
TotalBlocksMore(size) ==
  LET n == _data_blocks(size)
  IN n + (IF n > DIRECT_BOUND THEN 1 ELSE 0)
       + (IF n > INDIRECT1_BOUND THEN 2 + (n - INDIRECT1_BOUND) \div INODE_INDIRECT1_COUNT ELSE 0)

total_blocks(size) ==
  LET n == _data_blocks(size)
  IN n + (IF n > DIRECT_BOUND THEN 1 ELSE 0)
       + (IF n > INDIRECT1_BOUND
            THEN 1 + (n - INDIRECT1_BOUND + INODE_INDIRECT1_COUNT - 1) \div INODE_INDIRECT1_COUNT
            ELSE 0)

blocks_num_needed(inode, new_size) == total_blocks(new_size) - total_blocks(inode.size)

\* The block that holds the inner_id-th block of the file.
get_disk_id(fs, inode, inner_id) ==
  LET deep == inner_id - INDIRECT1_BOUND
  IN IF inner_id < DIRECT_BOUND THEN inode.direct[inner_id]
     ELSE IF inner_id < INDIRECT1_BOUND THEN fs.blocks[inode.indirect1][inner_id - DIRECT_BOUND]
     ELSE fs.blocks[fs.blocks[inode.indirect2][deep \div INODE_INDIRECT1_COUNT]]
                   [deep % INODE_INDIRECT1_COUNT]

Next1(fs) == Head(fs.new_blocks)
Rest(fs) == [fs EXCEPT !.new_blocks = Tail(@)]

\* new_blocks.next() goes into the root of an index that has just begun.
BeginIndex1(fs, i, k) ==
  IF k = DIRECT_BOUND THEN Rest([fs EXCEPT !.inodes[i].indirect1 = Next1(fs)]) ELSE fs

BeginIndex2(fs, i, k) ==
  IF k = INDIRECT1_BOUND THEN Rest([fs EXCEPT !.inodes[i].indirect2 = Next1(fs)]) ELSE fs

BeginSubIndex(fs, i, deep) ==
  IF deep % INODE_INDIRECT1_COUNT = 0
    THEN Rest([fs EXCEPT !.blocks[fs.inodes[i].indirect2][deep \div INODE_INDIRECT1_COUNT]
                 = Next1(fs)])
    ELSE fs

\* One turn of the loops of DiskInode::increase_size: block k of inode i.
AddBlock(fs, i, k) ==
  LET deep == k - INDIRECT1_BOUND
      g == BeginIndex1(fs, i, k)
      h == BeginSubIndex(BeginIndex2(fs, i, k), i, deep)
      sub == h.blocks[h.inodes[i].indirect2][deep \div INODE_INDIRECT1_COUNT]
  IN IF k >= INDIRECT2_BOUND THEN Fail(fs, "index")
     ELSE IF k < DIRECT_BOUND THEN Rest([fs EXCEPT !.inodes[i].direct[k] = Next1(fs)])
     ELSE IF k < INDIRECT1_BOUND
       THEN Rest([g EXCEPT !.blocks[g.inodes[i].indirect1][k - DIRECT_BOUND] = Next1(g)])
     ELSE Rest([h EXCEPT !.blocks[sub][deep % INODE_INDIRECT1_COUNT] = Next1(h)])

\* Inode::increase_size: nothing for a smaller size; the blocks are allocated
\* first, then handed out.
increase_size(fs, i, new_size) ==
  LET inode == fs.inodes[i]
      old == _data_blocks(inode.size)
      take(g, n) == alloc_data(g)
      got == FoldLeft(take, [fs EXCEPT !.new_blocks = <<>>],
                      [n \in 1..blocks_num_needed(inode, new_size) |-> n])
      add(g, k) == AddBlock(g, i, k)
  IN IF new_size < inode.size \/ got.bad # "no" THEN got
     ELSE FoldLeft(add, [got EXCEPT !.inodes[i].size = new_size],
                   [n \in 1..(_data_blocks(new_size) - old) |-> old + n - 1])

-----------------------------------------------------------------------------
MinOf(a, b) == IF a < b THEN a ELSE b

Entries(fs, b, n) == [k \in 1..n |-> fs.blocks[b][k - 1]]

\* The blocks clear_size returns, in its order.
BlocksOf(fs, inode) ==
  LET n == _data_blocks(inode.size)
      deep == n - INDIRECT1_BOUND
      subs == (deep + INODE_INDIRECT1_COUNT - 1) \div INODE_INDIRECT1_COUNT
      sub(j) == fs.blocks[inode.indirect2][j - 1]
      left(j) == MinOf(INODE_INDIRECT1_COUNT, deep - (j - 1) * INODE_INDIRECT1_COUNT)
  IN [k \in 1..MinOf(n, DIRECT_BOUND) |-> inode.direct[k - 1]]
       \o (IF n <= DIRECT_BOUND THEN <<>>
           ELSE <<inode.indirect1>>
                  \o Entries(fs, inode.indirect1, MinOf(INODE_INDIRECT1_COUNT, n - DIRECT_BOUND)))
       \o (IF n <= INDIRECT1_BOUND THEN <<>>
           ELSE <<inode.indirect2>>
                  \o FlattenSeq([j \in 1..subs |-> <<sub(j)>> \o Entries(fs, sub(j), left(j))]))

\* Inode::clear
clear(fs, i) ==
  LET freed == BlocksOf(fs, fs.inodes[i])
  IN IF Len(freed) # total_blocks(fs.inodes[i].size) THEN Fail(fs, "clear")
     ELSE FoldLeft(dealloc_data, [fs EXCEPT !.inodes[i] = NewInode], freed)

\* The bytes of inode i from offset on, at most len of them.
read_at(fs, i, offset, len) ==
  LET inode == fs.inodes[i]
      end == MinOf(offset + len, inode.size)
      at(pos) == fs.blocks[get_disk_id(fs, inode, pos \div BLOCK_SZ)][pos % BLOCK_SZ]
  IN [n \in 1..(IF offset < end THEN end - offset ELSE 0) |-> at(offset + n - 1)]

\* DiskInode::write_at: the bytes are laid over a file of sufficient size.
Overwrite(fs, i, offset, data) ==
  LET put(g, n) ==
        LET pos == offset + n - 1
        IN [g EXCEPT !.blocks[get_disk_id(g, g.inodes[i], pos \div BLOCK_SZ)][pos % BLOCK_SZ]
              = data[n]]
  IN FoldLeft(put, fs, [n \in 1..Len(data) |-> n])

\* Inode::write_at: the file grows, then it is written.
write_at(fs, i, offset, data) ==
  LET grown == increase_size(fs, i, offset + Len(data))
  IN IF grown.bad # "no" THEN grown ELSE Overwrite(grown, i, offset, data)

-----------------------------------------------------------------------------
\* A directory entry is a name and an inode, one word each.
Root == 0
DIRENTRY_SZ == 2
None == -1

DirEntries(fs) ==
  [e \in 1..(fs.inodes[Root].size \div DIRENTRY_SZ) |->
     read_at(fs, Root, (e - 1) * DIRENTRY_SZ, DIRENTRY_SZ)]

\* The first entry with the name, as the loop of find_inode_id finds it.
find_inode_id(fs, name) ==
  LET hits == SelectSeq(DirEntries(fs), LAMBDA e : e[1] = name)
  IN IF hits = <<>> THEN None ELSE Head(hits)[2]

\* Inode::create in the root directory, for a name that find did not find.
create(fs, name) ==
  LET id == FirstClear(fs.inode_bitmap, InodeBits)
      made == [fs EXCEPT !.inode_bitmap = @ \cup {id}, !.inodes[id] = NewInode]
      file_count == fs.inodes[Root].size \div DIRENTRY_SZ
  IN IF Full(fs.inode_bitmap, InodeBits) THEN Fail(fs, "no inode")
     ELSE write_at(made, Root, file_count * DIRENTRY_SZ, <<name, id>>)
====
